---------------------------- MODULE Spec2Model ----------------------------
(***************************************************************************)
(* The MIMI content codec (phnx-im/mimi-content): the positional           *)
(* (Serde_list) record codec, the externally tagged variant codec, the     *)
(* open enumerations, the CBOR wire layer they write to and read from,     *)
(* and the message-id derivation.                                          *)
(*                                                                         *)
(* Byte strings and text strings are sequences of octets (0..255).         *)
(* Integers are TLC integers, so that unsigned values are modelled below   *)
(* 2^31; the widths 8 and 16 bits, which the codec decides on, are kept.   *)
(***************************************************************************)
EXTENDS Integers, Sequences, FiniteSets, TLC

(***************************************************************************)
(* Bounds of the model.                                                    *)
(***************************************************************************)
\* longest byte string drawn for salt, replaces, topic_id, in_reply_to, content
MaxBytesLen == 1
\* most parts a MultiPart holds
MaxParts == 2
\* deepest nesting of MultiPart inside MultiPart
MaxDepth == 2
\* most extension entries inserted into a content
MaxExt == 2
\* the integers 0..MaxWire are all read as, and written from, every open enum
MaxWire == 260
\* the timestamps 0..MaxTimestamp are all written and read
MaxTimestamp == 30
\* most statuses in a report, and most targets of a receipt
MaxStatuses == 2
\* most calls one thread makes, one after the other
MaxCalls == 2

(***************************************************************************)
(* The state: a caller of the codec.  It holds a content it built, the     *)
(* sender and room it names, and what each call it made returned.          *)
(***************************************************************************)
VARIABLES
    content,    \* the MimiContent the caller built
    inserts,    \* the entries it inserted into content.extensions, in order
    sender,     \* the sender URI, octets
    room,       \* the room URI, octets
    bytes,      \* what content.serialize() returned, once called
    decoded,    \* what MimiContent::deserialize(bytes) returned, once called
    id1,        \* what the first content.message_id(sender, room) returned
    id2,        \* what the second content.message_id(sender, room) returned
    enumTy,     \* the open enumeration a caller of Serde_custom works with
    enumWire,   \* the item it read a value of the enumeration from
    enumRead,   \* what <enumTy as Deserialize>::deserialize returned for it
    enumValue,  \* the value of the enumeration it holds
    enumWritten, \* the item <enumTy as Serialize>::serialize wrote for it
    wire,       \* the item a peer sent, whose octets the caller reads
    rendered,   \* what content.string_rendering() returned, once called
    calls,      \* the calls that threads have under way, each with its locals
    built       \* the constructor call the content came from, if from one

vars == << content, built, inserts, sender, room, bytes, decoded, id1, id2,
           enumTy, enumWire, enumRead, enumValue, enumWritten, wire,
           rendered, calls >>
contentVars == << content, built, inserts, sender, room, bytes, decoded,
                 id1, id2 >>
enumVars == << enumTy, enumWire, enumRead, enumValue, enumWritten >>

(***************************************************************************)
(* Results: Rust's Result<T, E>, and a panic (an assert! that fails, which  *)
(* unwinds through every caller instead of being returned).                *)
(***************************************************************************)
Ok(v) == [ok |-> TRUE, val |-> v]
Err(e) == [ok |-> FALSE, err |-> e]
Panic(msg) == [ok |-> FALSE, panic |-> msg]
IsErr(r) == ~r.ok /\ "err" \in DOMAIN r
IsPanic(r) == ~r.ok /\ "panic" \in DOMAIN r

\* Option<T>
None == [some |-> FALSE]
Some(v) == [some |-> TRUE, val |-> v]

(***************************************************************************)
(* CBOR data items, as ciborium writes and reads them.                     *)
(*   uint n, nint n (the value -1-n), bytes, text, array (with the length  *)
(*   its header announces), map (pairs, in wire order), tag, simple        *)
(*   (20 false, 21 true, 22 null, 23 undefined).  An item is a record whose field names  *)
(*   say what it is, so that items of different kinds are unequal.         *)
(***************************************************************************)
UInt(n) == [uint |-> n]
NInt(n) == [nint |-> n]
Bytes(b) == [bytes |-> b]
Text(s) == [text |-> s]
Array(n, items) == [array |-> items, len |-> n]
Map(n, pairs) == [map |-> pairs, len |-> n]
Tag(n, item) == [tag |-> n, item |-> item]
Simple(n) == [simple |-> n]
Null == Simple(22)
Bool(b) == Simple(IF b THEN 21 ELSE 20)

\* the kind of an item is the name of its field
Is(item, kind) == kind \in DOMAIN item

RECURSIVE BigEndian(_, _)
\* the k octets of n, most significant first
BigEndian(n, k) ==
    IF k = 0 THEN << >>
    ELSE Append(BigEndian(n \div 256, k - 1), n % 256)

\* a CBOR head: major type and argument, in the shortest form
Header(major, arg) ==
    IF arg < 24 THEN << major * 32 + arg >>
    ELSE IF arg < 256 THEN << major * 32 + 24 >> \o BigEndian(arg, 1)
    ELSE IF arg < 65536 THEN << major * 32 + 25 >> \o BigEndian(arg, 2)
    ELSE << major * 32 + 26 >> \o BigEndian(arg, 4)

RECURSIVE Encode(_), EncodeAll(_), EncodePairs(_)
\* the octets ciborium writes for an item: the head, then the content.  An
\* array's head carries the announced length; the elements written follow it.
Encode(item) ==
    CASE Is(item, "uint") -> Header(0, item.uint)
      [] Is(item, "nint") -> Header(1, item.nint)
      [] Is(item, "bytes") -> Header(2, Len(item.bytes)) \o item.bytes
      [] Is(item, "text") -> Header(3, Len(item.text)) \o item.text
      [] Is(item, "array") -> Header(4, item.len) \o EncodeAll(item.array)
      [] Is(item, "map") -> Header(5, item.len) \o EncodePairs(item.map)
      [] Is(item, "tag") -> Header(6, item.tag) \o Encode(item.item)
      [] Is(item, "simple") -> Header(7, item.simple)

EncodeAll(items) ==
    IF items = << >> THEN << >>
    ELSE Encode(Head(items)) \o EncodeAll(Tail(items))

EncodePairs(pairs) ==
    IF pairs = << >> THEN << >>
    ELSE Encode(Head(pairs)[1]) \o Encode(Head(pairs)[2]) \o EncodePairs(Tail(pairs))

RECURSIVE FromBigEndian(_)
FromBigEndian(b) ==
    IF b = << >> THEN 0
    ELSE FromBigEndian(SubSeq(b, 1, Len(b) - 1)) * 256 + b[Len(b)]

\* the head at position p of b: major type, argument, position after it
Pull(b, p) ==
    IF p > Len(b) THEN Err("eof")
    ELSE LET major == b[p] \div 32
             info == b[p] % 32
             width == CASE info = 24 -> 1 [] info = 25 -> 2 [] info = 26 -> 4 [] OTHER -> 0
         IN  IF info < 24 THEN Ok([major |-> major, arg |-> info, next |-> p + 1])
             ELSE IF width = 0 \/ p + width > Len(b) THEN Err("syntax")
             ELSE IF width = 4 /\ b[p + 1] >= 128 THEN Err("syntax")
             ELSE Ok([major |-> major,
                      arg |-> FromBigEndian(SubSeq(b, p + 1, p + width)),
                      next |-> p + 1 + width])

RECURSIVE Decode(_, _), DecodeAll(_, _, _), DecodePairs(_, _, _)
\* the item that starts at position p of b, and the position after it
Decode(b, p) ==
    LET h == Pull(b, p) IN
    IF ~h.ok THEN h
    ELSE LET m == h.val.major
             a == h.val.arg
             q == h.val.next
         IN  CASE m = 0 -> Ok([item |-> UInt(a), next |-> q])
               [] m = 1 -> Ok([item |-> NInt(a), next |-> q])
               [] m = 2 -> IF q + a - 1 > Len(b) THEN Err("eof")
                           ELSE Ok([item |-> Bytes(SubSeq(b, q, q + a - 1)), next |-> q + a])
               [] m = 3 -> IF q + a - 1 > Len(b) THEN Err("eof")
                           ELSE Ok([item |-> Text(SubSeq(b, q, q + a - 1)), next |-> q + a])
               [] m = 4 -> LET r == DecodeAll(b, q, a) IN
                           IF ~r.ok THEN r
                           ELSE Ok([item |-> Array(a, r.val.items), next |-> r.val.next])
               [] m = 5 -> LET r == DecodePairs(b, q, a) IN
                           IF ~r.ok THEN r
                           ELSE Ok([item |-> Map(a, r.val.items), next |-> r.val.next])
               [] m = 6 -> LET r == Decode(b, q) IN
                           IF ~r.ok THEN r
                           ELSE Ok([item |-> Tag(a, r.val.item), next |-> r.val.next])
               [] m = 7 -> IF a \in {20, 21, 22, 23} THEN Ok([item |-> Simple(a), next |-> q])
                           ELSE Err("syntax")

DecodeAll(b, p, n) ==
    IF n = 0 THEN Ok([items |-> << >>, next |-> p])
    ELSE LET first == Decode(b, p) IN
         IF ~first.ok THEN first
         ELSE LET rest == DecodeAll(b, first.val.next, n - 1) IN
              IF ~rest.ok THEN rest
              ELSE Ok([items |-> << first.val.item >> \o rest.val.items,
                       next |-> rest.val.next])

DecodePairs(b, p, n) ==
    IF n = 0 THEN Ok([items |-> << >>, next |-> p])
    ELSE LET k == Decode(b, p) IN
         IF ~k.ok THEN k
         ELSE LET v == Decode(b, k.val.next) IN
              IF ~v.ok THEN v
              ELSE LET rest == DecodePairs(b, v.val.next, n - 1) IN
                   IF ~rest.ok THEN rest
                   ELSE Ok([items |-> << << k.val.item, v.val.item >> >> \o rest.val.items,
                            next |-> rest.val.next])

(***************************************************************************)
(* The schema: the structs that derive Serde_list, the enum that derives   *)
(* ExternallyTagged, and the open enumerations that derive Serde_custom.   *)
(***************************************************************************)
Field(name, ty) == [name |-> name, ty |-> ty, externally_tagged |-> FALSE]
TaggedField(name, ty) == [name |-> name, ty |-> ty, externally_tagged |-> TRUE]
Variant(name, discriminant, fields) ==
    [name |-> name, discriminant |-> discriminant, fields |-> fields]

MimiContent ==
    << Field("salt", "ByteBuf"),
       Field("replaces", "Option<ByteBuf>"),
       Field("topic_id", "ByteBuf"),
       Field("expires", "Option<Expiration>"),
       Field("in_reply_to", "Option<ByteBuf>"),
       Field("extensions", "BTreeMap"),
       Field("nested_part", "NestedPart") >>

Expiration == << Field("relative", "bool"), Field("time", "u32") >>

NestedPart ==
    << Field("disposition", "Disposition"),
       Field("language", "String"),
       TaggedField("part", "NestedPartContent") >>

PerMessageStatus == << Field("mimi_id", "ByteBuf"), Field("status", "MessageStatus") >>

NestedPartContent ==
    << Variant("NullPart", 0, << >>),
       Variant("SinglePart", 1,
               << Field("content_type", "String"), Field("content", "ByteBuf") >>),
       Variant("ExternalPart", 2,
               << Field("content_type", "String"), Field("url", "String"),
                  Field("expires", "u32"), Field("size", "u64"),
                  Field("enc_alg", "EncryptionAlgorithm"), Field("key", "ByteBuf"),
                  Field("nonce", "ByteBuf"), Field("aad", "ByteBuf"),
                  Field("hash_alg", "HashAlgorithm"), Field("content_hash", "ByteBuf"),
                  Field("description", "String"), Field("filename", "String") >>),
       Variant("MultiPart", 3,
               << Field("part_semantics", "PartSemantics"),
                  Field("parts", "Vec<NestedPart>") >>) >>

Disposition ==
    << <<"Unspecified", 0>>, <<"Render", 1>>, <<"Reaction", 2>>, <<"Profile", 3>>,
       <<"Inline", 4>>, <<"Icon", 5>>, <<"Attachment", 6>>, <<"Session", 7>>,
       <<"Preview", 8>> >>

PartSemantics == << <<"ChooseOne", 0>>, <<"SingleUnit", 1>>, <<"ProcessAll", 2>> >>

MessageStatus ==
    << <<"Unread", 0>>, <<"Delivered", 1>>, <<"Read", 2>>, <<"Expired", 3>>,
       <<"Deleted", 4>>, <<"Hidden", 5>>, <<"Error", 6>> >>

HashAlgorithm ==
    << <<"Unspecified", 0>>, <<"Sha256", 1>>, <<"Sha256_128", 2>>, <<"Sha256_120", 3>>,
       <<"Sha256_96", 4>>, <<"Sha256_64", 5>>, <<"Sha256_32", 6>>, <<"Sha384", 7>>,
       <<"Sha512", 8>>, <<"Sha3_224", 9>>, <<"Sha3_256", 10>>, <<"Sha3_384", 11>>,
       <<"Sha3_512", 12>> >>

EncryptionAlgorithm ==
    << <<"None", 0>>, <<"Aes128Gcm", 1>>, <<"Aes256Gcm", 2>>, <<"Aes128Ccm", 3>>,
       <<"Aes256Ccm", 4>>, <<"Aes128Gcm8", 5>>, <<"Aes256Gcm8", 6>>,
       <<"Aes128Gcm12", 7>>, <<"Aes256Gcm12", 8>>, <<"Aes128CcmShort", 9>>,
       <<"Aes256CcmShort", 10>>, <<"Aes128CcmShort8", 11>>, <<"Aes256CcmShort8", 12>>,
       <<"Aes128CcmShort12", 13>>, <<"Aes256CcmShort12", 14>>, <<"AesSivCmac256", 15>>,
       <<"AesSivCmac384", 16>>, <<"AesSivCmac512", 17>>, <<"Aes128Ccm8", 18>>,
       <<"Aes256Ccm8", 19>>, <<"Aes128OcbTaglen128", 20>>, <<"Aes128OcbTaglen96", 21>>,
       <<"Aes128OcbTaglen64", 22>>, <<"Aes192OcbTaglen128", 23>>,
       <<"Aes192OcbTaglen96", 24>>, <<"Aes192OcbTaglen64", 25>>,
       <<"Aes256OcbTaglen128", 26>>, <<"Aes256OcbTaglen96", 27>>,
       <<"Aes256OcbTaglen64", 28>>, <<"Chacha20Poly1305", 29>>, <<"Aes128GcmSiv", 30>>,
       <<"Aes256GcmSiv", 31>>, <<"Aegis128L", 32>>, <<"Aegis256", 33>>  >>

Structs == {"MimiContent", "Expiration", "NestedPart", "PerMessageStatus"}
OpenEnums8 == {"Disposition", "PartSemantics", "MessageStatus", "HashAlgorithm"}
OpenEnums == OpenEnums8 \cup {"EncryptionAlgorithm"}

\* the fields of a struct, in declaration order
FieldsOf(struct) ==
    CASE struct = "MimiContent" -> MimiContent
      [] struct = "Expiration" -> Expiration
      [] struct = "NestedPart" -> NestedPart
      [] struct = "PerMessageStatus" -> PerMessageStatus

\* the named variants of an open enumeration, in declaration order
NamedVariants(enum) ==
    CASE enum = "Disposition" -> Disposition
      [] enum = "PartSemantics" -> PartSemantics
      [] enum = "MessageStatus" -> MessageStatus
      [] enum = "HashAlgorithm" -> HashAlgorithm
      [] enum = "EncryptionAlgorithm" -> EncryptionAlgorithm

\* u8::MAX, the greatest discriminant and the greatest Custom(u8)
u8_MAX == 255
\* u16::MAX, the greatest Custom(u16)
u16_MAX == 65535

\* #[repr(u8)] or #[repr(u16)]: the greatest value of the enum's integer type
ReprMax(enum) == IF enum = "EncryptionAlgorithm" THEN u16_MAX ELSE u8_MAX

\* a value of an open enumeration: a named variant or Custom(u)
Named(name) == [variant |-> name]
Custom(u) == [Custom |-> u]
IsCustom(v) == "Custom" \in DOMAIN v

(***************************************************************************)
(* Serde_custom: an open enumeration is written as one unsigned integer.   *)
(***************************************************************************)
\* the declared value of a named variant
Discriminant(enum, name) ==
    LET vs == NamedVariants(enum)
        i == CHOOSE j \in 1..Len(vs) : vs[j][1] = name
    IN  vs[i][2]

\* a faulty writer: the value is cast to u8 before it is written, which
\* truncates a 16-bit Custom
Serde_custom_serialize_as_u8(enum, v) ==
    UInt((IF IsCustom(v) THEN v.Custom ELSE Discriminant(enum, v.variant)) % 256)

\* match self { Self::Variant => discriminant, ..., Self::Custom(u) => *u }
Serde_custom_serialize(enum, v) ==
    UInt(IF IsCustom(v) THEN v.Custom ELSE Discriminant(enum, v.variant))

\* a faulty reader: the arm of Custom comes first and takes every value
MatchVariant_custom_first(ty, u) == Custom(u)

\* match value { discriminant => Self::Variant, ..., u => Self::Custom(u) }:
\* the first arm that matches
MatchVariant(ty, u) ==
    LET vs == NamedVariants(ty)
        hits == {j \in 1..Len(vs) : vs[j][2] = u}
    IN  IF hits = {} THEN Custom(u)
        ELSE Named(vs[CHOOSE j \in hits : \A k \in hits : j <= k][1])

(***************************************************************************)
(* ciborium's deserializer for the primitive types.  A tag in front of an  *)
(* integer, a bool, a string, a byte string, an array or a map is skipped. *)
(***************************************************************************)
RECURSIVE SkipTags(_)
SkipTags(item) == IF Is(item, "tag") THEN SkipTags(item.item) ELSE item

\* Deserializer::integer, for an unsigned target: a positive integer, or a
\* positive bignum (tag 2 around a byte string)
Integer(item) ==
    IF Is(item, "uint") THEN Ok(item.uint)
    ELSE IF Is(item, "nint") THEN Err("unexpected negative integer")
    ELSE IF Is(item, "tag") /\ item.tag = 2
         THEN IF Is(item.item, "bytes") /\ Len(item.item.bytes) <= 3
              THEN Ok(FromBigEndian(item.item.bytes))
              ELSE Err("expected bytes")
    ELSE IF Is(item, "tag") /\ item.tag = 3 THEN Err("unexpected negative integer")
    ELSE IF Is(item, "tag") THEN
         LET inner == SkipTags(item) IN
         IF Is(inner, "uint") THEN Ok(inner.uint) ELSE Err("expected integer")
    ELSE Err("expected integer")

\* a faulty reader: the integer is read at full width and cast to the type,
\* which wraps a value that is too large
Unsigned_deserialize_wrapping(item, max) ==
    LET value == Integer(item) IN
    IF ~value.ok THEN value ELSE Ok(value.val % (max + 1))

\* u8::deserialize, u16::deserialize, u32::deserialize, u64::deserialize: the
\* integer, when it is no larger than the type's greatest value
Unsigned_deserialize(item, max) ==
    LET value == Integer(item) IN
    IF ~value.ok THEN value
    ELSE IF value.val > max THEN Err("invalid value")
    ELSE value

\* let value = u8::deserialize(deserializer)?; Ok(match value { ... })
Serde_custom_deserialize(enum, item) ==
    LET value == Unsigned_deserialize(item, ReprMax(enum)) IN
    IF ~value.ok THEN value
    ELSE Ok(MatchVariant(enum, value.val))

RECURSIVE Utf8(_)
\* core::str::from_utf8 accepts the octets
Utf8(b) ==
    IF b = << >> THEN TRUE
    ELSE LET c == b[1]
             n == Len(b)
             Cont(i) == i <= n /\ b[i] >= 128 /\ b[i] <= 191
         IN  IF c < 128 THEN Utf8(Tail(b))
             ELSE IF c >= 194 /\ c <= 223
                  THEN Cont(2) /\ Utf8(SubSeq(b, 3, n))
             ELSE IF c >= 224 /\ c <= 239
                  THEN /\ Cont(2) /\ Cont(3)
                       /\ (c = 224 => b[2] >= 160)
                       /\ (c = 237 => b[2] <= 159)
                       /\ Utf8(SubSeq(b, 4, n))
             ELSE IF c >= 240 /\ c <= 244
                  THEN /\ Cont(2) /\ Cont(3) /\ Cont(4)
                       /\ (c = 240 => b[2] >= 144)
                       /\ (c = 244 => b[2] <= 143)
                       /\ Utf8(SubSeq(b, 5, n))
             ELSE FALSE

\* a faulty reader of text, which does not pass over the tags put before it
String_deserialize_untagged(item) ==
    IF Is(item, "text") /\ Utf8(item.text) THEN Ok(item.text)
    ELSE Err("expected str")

\* String::deserialize
String_deserialize(item) ==
    LET i == SkipTags(item) IN
    IF Is(i, "text") /\ Utf8(i.text) THEN Ok(i.text)
    ELSE Err("expected str")

\* bool::deserialize
bool_deserialize(item) ==
    LET i == SkipTags(item) IN
    IF Is(i, "simple") /\ i.simple \in {20, 21} THEN Ok(i.simple = 21)
    ELSE Err("expected bool")

\* serde_bytes::ByteBuf::deserialize: a byte string, or an array of u8
ByteBuf_deserialize(item) ==
    LET i == SkipTags(item) IN
    IF Is(i, "bytes") THEN Ok(i.bytes)
    ELSE IF Is(i, "array")
         THEN IF \A k \in 1..Len(i.array) : Unsigned_deserialize(i.array[k], 255).ok
              THEN Ok([k \in 1..Len(i.array) |-> Unsigned_deserialize(i.array[k], 255).val])
              ELSE Err("invalid value")
    ELSE Err("expected bytes")

(***************************************************************************)
(* ciborium::Value, the type of an extension's value: a CBOR item, kept    *)
(* as it is.  Reading one fails on text that is not UTF-8; undefined is    *)
(* read as null.                                                           *)
(***************************************************************************)
RECURSIVE ValueOk(_), ValueRead(_)
ValueOk(item) ==
    CASE Is(item, "text") -> Utf8(item.text)
      [] Is(item, "array") -> \A k \in 1..Len(item.array) : ValueOk(item.array[k])
      [] Is(item, "map") ->
            \A k \in 1..Len(item.map) : ValueOk(item.map[k][1]) /\ ValueOk(item.map[k][2])
      [] Is(item, "tag") -> ValueOk(item.item)
      [] OTHER -> TRUE

RECURSIVE StripZeros(_)
\* the octets without the zeros they start with
StripZeros(b) == IF b # << >> /\ Head(b) = 0 THEN StripZeros(Tail(b)) ELSE b

\* deserialize_any on tag 2 or 3 around at most 16 octets: the integer the
\* octets stand for, which Value keeps as an integer when it fits 64 bits
\* and as the tag around its octets when it does not (a negative bignum of
\* 16 octets with the top bit set is not among the items read here)
Bignum(tag, b) ==
    LET raw == StripZeros(b) IN
    IF Len(raw) > 8 THEN Tag(tag, Bytes(raw))
    ELSE IF tag = 2 THEN UInt(FromBigEndian(raw)) ELSE NInt(FromBigEndian(raw))

ValueRead(item) ==
    CASE Is(item, "simple") -> IF item.simple = 23 THEN Null ELSE item
      [] Is(item, "array") ->
            Array(item.len, [k \in 1..Len(item.array) |-> ValueRead(item.array[k])])
      [] Is(item, "map") ->
            Map(item.len, [k \in 1..Len(item.map) |->
                              << ValueRead(item.map[k][1]), ValueRead(item.map[k][2]) >>])
      [] Is(item, "tag") ->
            IF item.tag \in {2, 3} /\ Is(item.item, "bytes")
                  /\ Len(item.item.bytes) <= 16
            THEN Bignum(item.tag, item.item.bytes)
            ELSE Tag(item.tag, ValueRead(item.item))
      [] OTHER -> item

\* ciborium::Value::deserialize
Value_deserialize(item) ==
    IF ValueOk(item) THEN Ok(ValueRead(item)) ELSE Err("invalid utf-8")

\* pub struct Timestamp(pub u64)
Timestamp(t) == [Timestamp |-> t]

\* a faulty writer, which marks the seconds with tag 1
Timestamp_serialize_as_tag_1(self) == Tag(1, UInt(self.Timestamp))

\* impl Serialize for Timestamp: Value::Tag(62, Integer::from(self.0))
Timestamp_serialize(self) == Tag(62, UInt(self.Timestamp))

\* a faulty reader, which takes a tag of any number
Timestamp_deserialize_any_tag(item) ==
    LET value == Value_deserialize(item) IN
    IF ~value.ok THEN value
    ELSE IF Is(value.val, "tag")
    THEN LET v == value.val.item IN
         IF Is(v, "uint") THEN Ok(Timestamp(v.uint))
         ELSE IF Is(v, "nint")
         THEN Err([invalid_value |-> "timestamp must fit in u64"])
         ELSE Err([invalid_type |-> "Timestamp must be an integer"])
    ELSE Err([invalid_type |-> "Timestamp must have tag 62"])

\* impl Deserialize for Timestamp: the Value read must be Tag(62, Integer),
\* and the integer must pass u64::try_from
Timestamp_deserialize(item) ==
    LET value == Value_deserialize(item) IN
    IF ~value.ok THEN value
    ELSE IF Is(value.val, "tag") /\ value.val.tag = 62
    THEN LET v == value.val.item IN
         IF Is(v, "uint") THEN Ok(Timestamp(v.uint))
         ELSE IF Is(v, "nint")
         THEN Err([invalid_value |-> "timestamp must fit in u64"])
         ELSE Err([invalid_type |-> "Timestamp must be an integer"])
    ELSE Err([invalid_type |-> "Timestamp must have tag 62"])

\* ciborium::from_reader::<Timestamp>: the first item of the octets
Timestamp_from_reader(octets) ==
    LET item == Decode(octets, 1) IN
    IF ~item.ok THEN item ELSE Timestamp_deserialize(item.val.item)

(***************************************************************************)
(* ExtensionName, the key of an extension, and its derived order.          *)
(***************************************************************************)
ExtensionName_Text(text) == [Text |-> text]
ExtensionName_Number(integer) == [Number |-> integer]

into_value(name) ==
    IF "Text" \in DOMAIN name THEN Text(name.Text)
    ELSE IF name.Number >= 0 THEN UInt(name.Number)
    ELSE NInt(-1 - name.Number)

from_value(value) ==
    IF Is(value, "text") THEN Some(ExtensionName_Text(value.text))
    ELSE IF Is(value, "uint") THEN Some(ExtensionName_Number(value.uint))
    ELSE IF Is(value, "nint") THEN Some(ExtensionName_Number(-1 - value.nint))
    ELSE None

\* impl Serialize for ExtensionName
ExtensionName_serialize(name) == into_value(name)

\* impl Deserialize for ExtensionName
ExtensionName_deserialize(item) ==
    LET value == Value_deserialize(item) IN
    IF ~value.ok THEN value
    ELSE LET name == from_value(value.val) IN
         IF name.some THEN Ok(name.val) ELSE Err("invalid type: an extension name")

RECURSIVE BytesLess(_, _)
\* the order of String and of [u8]: lexicographic by octet
BytesLess(a, b) ==
    IF b = << >> THEN FALSE
    ELSE IF a = << >> THEN TRUE
    ELSE IF a[1] # b[1] THEN a[1] < b[1]
    ELSE BytesLess(Tail(a), Tail(b))

\* #[derive(PartialOrd, Ord)] on ExtensionName: the variants in declaration
\* order (Text, then Number), and within a variant the order of its field
ExtensionName_lt(a, b) ==
    IF "Text" \in DOMAIN a
    THEN IF "Text" \in DOMAIN b THEN BytesLess(a.Text, b.Text) ELSE TRUE
    ELSE IF "Text" \in DOMAIN b THEN FALSE ELSE a.Number < b.Number

(***************************************************************************)
(* BTreeMap<ExtensionName, ciborium::Value>: the entries <<key, value>>    *)
(* in ascending order of key.                                              *)
(***************************************************************************)
BTreeMap_new == << >>

\* a faulty map, which keeps its entries in the order of their insertion
BTreeMap_insert_at_end(m, k, v) ==
    IF \E i \in 1..Len(m) : m[i][1] = k
    THEN [i \in 1..Len(m) |-> IF m[i][1] = k THEN << k, v >> ELSE m[i]]
    ELSE Append(m, << k, v >>)

\* BTreeMap::insert: the value of a key already held is replaced
BTreeMap_insert(m, k, v) ==
    IF \E i \in 1..Len(m) : m[i][1] = k
    THEN [i \in 1..Len(m) |-> IF m[i][1] = k THEN << k, v >> ELSE m[i]]
    ELSE LET n == Cardinality({i \in 1..Len(m) : ExtensionName_lt(m[i][1], k)})
         IN  SubSeq(m, 1, n) \o << << k, v >> >> \o SubSeq(m, n + 1, Len(m))

RECURSIVE BTreeMap_from(_)
\* the map after the inserts of a sequence of entries, first to last
BTreeMap_from(entries) ==
    IF entries = << >> THEN BTreeMap_new
    ELSE LET last == entries[Len(entries)] IN
         BTreeMap_insert(BTreeMap_from(SubSeq(entries, 1, Len(entries) - 1)),
                         last[1], last[2])

\* BTreeMap::serialize: one map of len() entries, in iteration order
BTreeMap_serialize(m) ==
    Map(Len(m), [i \in 1..Len(m) |-> << ExtensionName_serialize(m[i][1]), m[i][2] >>])

RECURSIVE visit_map_in_wire_order(_, _)
\* a faulty reader, which keeps the entries in the order it met them
visit_map_in_wire_order(pairs, values) ==
    IF pairs = << >> THEN Ok(values)
    ELSE LET key == ExtensionName_deserialize(Head(pairs)[1]) IN
         IF ~key.ok THEN key
         ELSE LET value == Value_deserialize(Head(pairs)[2]) IN
              IF ~value.ok THEN value
              ELSE visit_map_in_wire_order(Tail(pairs),
                       BTreeMap_insert_at_end(values, key.val, value.val))

RECURSIVE visit_map(_, _)
\* while let Some((key, value)) = map.next_entry()? { values.insert(key, value); }
visit_map(pairs, values) ==
    IF pairs = << >> THEN Ok(values)
    ELSE LET key == ExtensionName_deserialize(Head(pairs)[1]) IN
         IF ~key.ok THEN key
         ELSE LET value == Value_deserialize(Head(pairs)[2]) IN
              IF ~value.ok THEN value
              ELSE visit_map(Tail(pairs), BTreeMap_insert(values, key.val, value.val))

\* BTreeMap::deserialize
BTreeMap_deserialize(item) ==
    LET i == SkipTags(item) IN
    IF Is(i, "map") THEN visit_map(i.map, BTreeMap_new) ELSE Err("expected map")

(***************************************************************************)
(* The derived codecs.  Serialize(ty, v) is <ty as Serialize>::serialize   *)
(* into ciborium's serializer, Deserialize(ty, item) is                    *)
(* <ty as Deserialize>::deserialize from ciborium's deserializer.          *)
(***************************************************************************)
\* the variant of NestedPartContent that a value is
VariantOf(enum, v) ==
    LET i == CHOOSE j \in 1..Len(enum) : enum[j].name = v.variant IN enum[i]

RECURSIVE Serialize(_, _), Deserialize(_, _)

\* a faulty count, which takes the discriminant for a field of the variant
num_fields_with_discriminant(enum, v) ==
    1 + Len(VariantOf(enum, v).fields)

\* ExternallyTagged::num_fields: the number of fields of the active variant
num_fields(enum, v) == Len(VariantOf(enum, v).fields)

\* ExternallyTagged::serialize_fields: the discriminant, then every field of
\* the active variant, each an element of the enclosing sequence
serialize_fields(enum, v) ==
    LET variant == VariantOf(enum, v) IN
    << UInt(variant.discriminant) >>
        \o [i \in 1..Len(variant.fields) |->
                Serialize(variant.fields[i].ty, v[variant.fields[i].name])]

\* a faulty count, which takes every field for one element, an externally
\* tagged one too
field_num_updates_one_each(fields, v) == Len(fields)

RECURSIVE field_num_updates(_, _), field_serializations(_, _)
\* Serde_list: num_fields += 1 for a field, and
\* num_fields += 1 + ExternallyTagged::num_fields(&self.field) for an
\* externally tagged one
field_num_updates(fields, v) ==
    IF fields = << >> THEN 0
    ELSE LET f == Head(fields) IN
         (IF f.externally_tagged
          THEN 1 + num_fields(NestedPartContent, v[f.name])
          ELSE 1) + field_num_updates(Tail(fields), v)

RECURSIVE field_serializations_flattened(_, _)
\* a faulty writer, which writes the elements of a field that is itself a
\* struct into the enclosing sequence, as it does for an externally tagged one
field_serializations_flattened(fields, v) ==
    IF fields = << >> THEN << >>
    ELSE LET f == Head(fields) IN
         (IF f.externally_tagged
          THEN serialize_fields(NestedPartContent, v[f.name])
          ELSE IF f.ty \in Structs THEN Serialize(f.ty, v[f.name]).array
          ELSE << Serialize(f.ty, v[f.name]) >>)
             \o field_serializations_flattened(Tail(fields), v)

\* Serde_list: state.serialize_element(&self.field)? for a field, and
\* ExternallyTagged::serialize_fields(&self.field, &mut state)? for an
\* externally tagged one
field_serializations(fields, v) ==
    IF fields = << >> THEN << >>
    ELSE LET f == Head(fields) IN
         (IF f.externally_tagged
          THEN serialize_fields(NestedPartContent, v[f.name])
          ELSE << Serialize(f.ty, v[f.name]) >>) \o field_serializations(Tail(fields), v)

\* Serde_list, impl Serialize: serialize_seq(Some(num_fields)), the elements,
\* end()
Serde_list_serialize(struct, v) ==
    Array(field_num_updates(FieldsOf(struct), v),
          field_serializations(FieldsOf(struct), v))

Serialize(ty, v) ==
    CASE ty = "ByteBuf" -> Bytes(v)
      [] ty = "String" -> Text(v)
      [] ty = "bool" -> Bool(v)
      [] ty \in {"u32", "u64"} -> UInt(v)
      [] ty = "Option<ByteBuf>" -> IF v.some THEN Serialize("ByteBuf", v.val) ELSE Null
      [] ty = "Option<Expiration>" ->
            IF v.some THEN Serialize("Expiration", v.val) ELSE Null
      [] ty = "Vec<NestedPart>" ->
            Array(Len(v), [i \in 1..Len(v) |-> Serialize("NestedPart", v[i])])
      [] ty = "Vec<PerMessageStatus>" ->
            Array(Len(v), [i \in 1..Len(v) |-> Serialize("PerMessageStatus", v[i])])
      [] ty = "BTreeMap" -> BTreeMap_serialize(v)
      [] ty \in OpenEnums -> Serde_custom_serialize(ty, v)
      [] ty \in Structs -> Serde_list_serialize(ty, v)

RECURSIVE field_deserializations(_, _, _, _), deserialize_fields(_, _, _)
\* the fields read one after the other from the elements left in seq; a
\* field with no element left is invalid_length(next_index(), ..).  The
\* closure next_index runs only there, so that current_index is still what
\* visit_seq set it to.
field_deserializations(fields, seq, current_index, result) ==
    IF fields = << >> THEN Ok([val |-> result, seq |-> seq])
    ELSE LET f == Head(fields) IN
         IF f.externally_tagged
         THEN LET part == deserialize_fields(NestedPartContent, seq, current_index) IN
              IF ~part.ok THEN part
              ELSE field_deserializations(Tail(fields), part.val.seq, current_index,
                                          (f.name :> part.val.val) @@ result)
         ELSE IF seq = << >>
              THEN Err([invalid_length |-> current_index])
         ELSE LET element == Deserialize(f.ty, Head(seq)) IN
              IF ~element.ok THEN element
              ELSE field_deserializations(Tail(fields), Tail(seq), current_index,
                                          (f.name :> element.val) @@ result)

RECURSIVE deserialize_fields_or_default(_, _, _)
\* a faulty reader, which takes a discriminant that names no variant for
\* the #[default] variant, the first one
deserialize_fields_or_default(enum, seq, current_index) ==
    IF seq = << >> THEN Err([invalid_length |-> current_index])
    ELSE LET target_discriminant == Unsigned_deserialize(Head(seq), u8_MAX) IN
         IF ~target_discriminant.ok THEN target_discriminant
         ELSE LET hits == {j \in 1..Len(enum) :
                              enum[j].discriminant = target_discriminant.val}
                  variant == IF hits = {} THEN enum[1] ELSE enum[CHOOSE j \in hits : TRUE]
              IN  field_deserializations(variant.fields, Tail(seq), current_index,
                                         [variant |-> variant.name])

\* ExternallyTagged::deserialize_fields: the discriminant (a u8), then the
\* fields of the variant it names
deserialize_fields(enum, seq, current_index) ==
    IF seq = << >> THEN Err([invalid_length |-> current_index])
    ELSE LET target_discriminant == Unsigned_deserialize(Head(seq), u8_MAX) IN
         IF ~target_discriminant.ok THEN target_discriminant
         ELSE LET hits == {j \in 1..Len(enum) :
                              enum[j].discriminant = target_discriminant.val}
              IN  IF hits = {}
                  THEN Err([invalid_value |-> target_discriminant.val])
                  ELSE LET variant == enum[CHOOSE j \in hits : TRUE] IN
                       field_deserializations(variant.fields, Tail(seq), current_index,
                                              [variant |-> variant.name])

\* Serde_list, impl Deserialize: deserialize_seq, and in visit_seq the
\* fields, then assert!(seq.next_element::<u8>()?.is_none(), ..)
Serde_list_deserialize(struct, item) ==
    LET i == SkipTags(item) IN
    IF ~Is(i, "array") THEN Err("expected array")
    ELSE LET result == field_deserializations(FieldsOf(struct), i.array, 0, << >>) IN
         IF ~result.ok THEN result
         ELSE IF result.val.seq = << >> THEN Ok(result.val.val)
         ELSE LET next == Unsigned_deserialize(Head(result.val.seq), u8_MAX) IN
              IF ~next.ok THEN next
              ELSE Panic("parsing finished with data remaining")

RECURSIVE Vec_visit_seq_reversed(_, _, _)
\* a faulty reader, which puts each element before the ones read so far
Vec_visit_seq_reversed(ty, seq, values) ==
    IF seq = << >> THEN Ok(values)
    ELSE LET value == Deserialize(ty, Head(seq)) IN
         IF ~value.ok THEN value
         ELSE Vec_visit_seq_reversed(ty, Tail(seq), << value.val >> \o values)

RECURSIVE Vec_visit_seq(_, _, _)
\* Vec<T>::deserialize: while let Some(value) = seq.next_element()? { push }
Vec_visit_seq(ty, seq, values) ==
    IF seq = << >> THEN Ok(values)
    ELSE LET value == Deserialize(ty, Head(seq)) IN
         IF ~value.ok THEN value
         ELSE Vec_visit_seq(ty, Tail(seq), Append(values, value.val))

Vec_deserialize(ty, item) ==
    LET i == SkipTags(item) IN
    IF Is(i, "array") THEN Vec_visit_seq(ty, i.array, << >>) ELSE Err("expected array")

\* a faulty reader, which takes a present but empty byte string for an
\* absent one
Option_deserialize_empty_is_none(ty, item) ==
    IF Is(item, "simple") /\ item.simple \in {22, 23} THEN Ok(None)
    ELSE IF ty = "ByteBuf" /\ item = Bytes(<< >>) THEN Ok(None)
    ELSE LET value == Deserialize(ty, item) IN
         IF ~value.ok THEN value ELSE Ok(Some(value.val))

\* a faulty reader, which takes no element for None
Option_deserialize_always_some(ty, item) ==
    LET value == Deserialize(ty, item) IN
    IF ~value.ok THEN value ELSE Ok(Some(value.val))

\* Option<T>::deserialize: null and undefined are None
Option_deserialize(ty, item) ==
    IF Is(item, "simple") /\ item.simple \in {22, 23} THEN Ok(None)
    ELSE LET value == Deserialize(ty, item) IN
         IF ~value.ok THEN value ELSE Ok(Some(value.val))

Deserialize(ty, item) ==
    CASE ty = "ByteBuf" -> ByteBuf_deserialize(item)
      [] ty = "String" -> String_deserialize(item)
      [] ty = "bool" -> bool_deserialize(item)
      [] ty = "u32" -> Unsigned_deserialize(item, 2147483647)
      [] ty = "u64" -> Unsigned_deserialize(item, 2147483647)
      [] ty = "Option<ByteBuf>" -> Option_deserialize("ByteBuf", item)
      [] ty = "Option<Expiration>" -> Option_deserialize("Expiration", item)
      [] ty = "Vec<NestedPart>" -> Vec_deserialize("NestedPart", item)
      [] ty = "Vec<PerMessageStatus>" -> Vec_deserialize("PerMessageStatus", item)
      [] ty = "BTreeMap" -> BTreeMap_deserialize(item)
      [] ty \in OpenEnums -> Serde_custom_deserialize(ty, item)
      [] ty \in Structs -> Serde_list_deserialize(ty, item)

\* a faulty writer, whose sink stops before the last octet
MimiContent_serialize_cut_short(c) ==
    LET octets == Encode(Serialize("MimiContent", c)) IN
    SubSeq(octets, 1, Len(octets) - 1)

(***************************************************************************)
(* impl MimiContent                                                        *)
(***************************************************************************)
\* MimiContent::serialize: ciborium::ser::into_writer(&self, &mut result)
MimiContent_serialize(c) == Encode(Serialize("MimiContent", c))

\* MimiContent::deserialize: ciborium::de::from_reader(..), every error
\* mapped to Error::DeserializationFailed
MimiContent_deserialize(input) ==
    LET read == Decode(input, 1) IN
    IF ~read.ok THEN Err("DeserializationFailed")
    ELSE LET value == Deserialize("MimiContent", read.val.item) IN
         IF IsErr(value) THEN Err("DeserializationFailed") ELSE value

\* sha2::Sha256::digest: 32 octets, each standing for itself: the i-th octet
\* of the digest of the input (no two inputs collide)
Sha256_digest(data) == [i \in 1..32 |-> [sha256 |-> data, octet |-> i]]

\* a faulty buffer, which is shared with serialize and still holds what
\* serialize wrote last
message_id_value_after_buffer(c, sender_uri, room_uri) ==
    (IF bytes.some THEN bytes.val ELSE << >>)
        \o sender_uri \o room_uri \o MimiContent_serialize(c) \o c.salt

\* a faulty input, which holds the message's part and neither the rest of
\* the content nor the salt
message_id_value_of_part(c, sender_uri, room_uri) ==
    sender_uri \o room_uri \o Encode(Serialize("NestedPart", c.nested_part))

\* a faulty input, which says how long the sender and the room are
message_id_value_with_lengths(c, sender_uri, room_uri) ==
    << Len(sender_uri) >> \o sender_uri \o << Len(room_uri) >> \o room_uri
        \o MimiContent_serialize(c) \o c.salt

\* MimiContent::message_id, the octets it hashes: value
message_id_value(c, sender_uri, room_uri) ==
    sender_uri \o room_uri \o MimiContent_serialize(c) \o c.salt

\* a faulty identifier, which holds the last 31 octets of the digest
message_id_hash_tail(c, sender_uri, room_uri) ==
    LET hash == Sha256_digest(message_id_value(c, sender_uri, room_uri))
    IN  << 1 >> \o SubSeq(hash, 2, 32)

\* MimiContent::message_id
message_id(c, sender_uri, room_uri) ==
    LET hash == Sha256_digest(message_id_value(c, sender_uri, room_uri))
    IN  << 1 >> \o SubSeq(hash, 1, 31)

\* a faulty writer, which writes the report as a record: an array with
\* the list as its one element
MessageStatusReport_serialize_wrapped(self) ==
    Ok(Encode(Array(1, << Serialize("Vec<PerMessageStatus>", self.statuses) >>)))

\* MessageStatusReport::serialize: into_writer(&self.statuses, &mut result),
\* whose error, that of the sink, a Vec never gives
MessageStatusReport_serialize(self) ==
    Ok(Encode(Serialize("Vec<PerMessageStatus>", self.statuses)))

\* MessageStatusReport::deserialize
MessageStatusReport_deserialize(input) ==
    LET read == Decode(input, 1) IN
    IF ~read.ok THEN Err("DeserializationFailed")
    ELSE LET statuses == Deserialize("Vec<PerMessageStatus>", read.val.item) IN
         IF IsErr(statuses) THEN Err("DeserializationFailed")
         ELSE IF statuses.ok THEN Ok([statuses |-> statuses.val])
         ELSE statuses

\* "text/markdown"
text_markdown == << 116, 101, 120, 116, 47, 109, 97, 114, 107, 100, 111, 119, 110 >>

\* "application/mimi-message-status", "text/plain"
application_mimi_message_status ==
    << 97, 112, 112, 108, 105, 99, 97, 116, 105, 111, 110, 47, 109, 105, 109, 105, 45,
       109, 101, 115, 115, 97, 103, 101, 45, 115, 116, 97, 116, 117, 115 >>
text_plain == << 116, 101, 120, 116, 47, 112, 108, 97, 105, 110 >>

\* a faulty constructor, which names the content type text/plain
simple_markdown_message_as_plain(markdown, random_salt) ==
    [salt |-> random_salt, replaces |-> None, topic_id |-> << >>, expires |-> None,
     in_reply_to |-> None, extensions |-> BTreeMap_new,
     nested_part |->
        [disposition |-> Named("Render"), language |-> << >>,
         part |-> [variant |-> "SinglePart", content_type |-> text_plain,
                   content |-> markdown]]]

\* MimiContent::simple_markdown_message
simple_markdown_message(markdown, random_salt) ==
    [salt |-> random_salt, replaces |-> None, topic_id |-> << >>, expires |-> None,
     in_reply_to |-> None, extensions |-> BTreeMap_new,
     nested_part |->
        [disposition |-> Named("Render"), language |-> << >>,
         part |-> [variant |-> "SinglePart", content_type |-> text_markdown,
                   content |-> markdown]]]

\* a faulty constructor, which reports every target as read
simple_delivery_receipt_as_read(targets, random_salt) ==
    LET report == [statuses |-> [i \in 1..Len(targets) |->
                                    [mimi_id |-> targets[i], status |-> Named("Read")]]]
    IN  [salt |-> random_salt, replaces |-> None, topic_id |-> << >>,
         expires |-> None, in_reply_to |-> None, extensions |-> BTreeMap_new,
         nested_part |->
            [disposition |-> Named("Unspecified"), language |-> << >>,
             part |-> [variant |-> "SinglePart",
                       content_type |-> application_mimi_message_status,
                       content |-> MessageStatusReport_serialize(report).val]]]

\* MimiContent::simple_delivery_receipt; the content is what
\* report.serialize() wrote
simple_delivery_receipt(targets, random_salt) ==
    LET report == [statuses |-> [i \in 1..Len(targets) |->
                                    [mimi_id |-> targets[i], status |-> Named("Delivered")]]]
    IN  [salt |-> random_salt, replaces |-> None, topic_id |-> << >>,
         expires |-> None, in_reply_to |-> None, extensions |-> BTreeMap_new,
         nested_part |->
            [disposition |-> Named("Unspecified"), language |-> << >>,
             part |-> [variant |-> "SinglePart",
                       content_type |-> application_mimi_message_status,
                       content |-> MessageStatusReport_serialize(report).val]]]

\* a faulty rendering, which looks at the octets before the content type
string_rendering_utf8_first(self) ==
    LET part == self.nested_part.part IN
    IF part.variant = "SinglePart"
    THEN IF ~Utf8(part.content) THEN Err("NotUtf8")
         ELSE IF part.content_type = text_markdown THEN Ok(part.content)
         ELSE Err("UnsupportedContentType")
    ELSE Err("UnsupportedContentType")

\* MimiContent::string_rendering: the match arm with its guard, then
\* String::from_utf8, which keeps the octets
string_rendering(self) ==
    LET part == self.nested_part.part IN
    IF part.variant = "SinglePart" /\ part.content_type = text_markdown
    THEN IF Utf8(part.content) THEN Ok(part.content) ELSE Err("NotUtf8")
    ELSE Err("UnsupportedContentType")

(***************************************************************************)
(* The values the caller draws its inputs from.                            *)
(***************************************************************************)
\* 'h', and an octet that no UTF-8 text holds
OctetSamples == {104, 255}

RECURSIVE ByteStrings(_)
\* the octet strings of at most n sampled octets
ByteStrings(n) ==
    IF n = 0 THEN {<< >>}
    ELSE LET shorter == ByteStrings(n - 1) IN
         shorter \cup {Append(b, o) : b \in {x \in shorter : Len(x) = n - 1},
                                      o \in OctetSamples}

RECURSIVE SeqsUpTo(_, _)
\* the sequences of at most n elements of S
SeqsUpTo(S, n) ==
    IF n = 0 THEN {<< >>}
    ELSE LET shorter == SeqsUpTo(S, n - 1) IN
         shorter \cup {Append(q, e) : q \in {x \in shorter : Len(x) = n - 1}, e \in S}

\* "a", "en"
text_a == << 97 >>
text_en == << 101, 110 >>

OptionalBytes == {None} \cup {Some(b) : b \in ByteStrings(MaxBytesLen)}

Expirations ==
    {None, Some([relative |-> TRUE, time |-> 0]), Some([relative |-> FALSE, time |-> 70000])}

\* the fields of a content other than salt, extensions and nested_part
Tops ==
    [replaces : OptionalBytes, topic_id : {<< >>, << 104 >>},
     expires : Expirations, in_reply_to : {None, Some(<< >>), Some(<< 104 >>)}]

ExtensionEntries ==
    { << ExtensionName_Number(1), Text(text_a) >>,
      << ExtensionName_Number(2), UInt(7) >>,
      << ExtensionName_Number(1), UInt(7) >>,
      << ExtensionName_Text(text_a), Null >> }

\* an entry whose value is the big number 5: Value::Tag(2, Bytes([5]))
TaggedEntries == { << ExtensionName_Number(3), Tag(2, Bytes(<< 5 >>)) >> }

Dispositions == {Named("Unspecified"), Named("Render"), Custom(200), Custom(1)}

NullPart == [variant |-> "NullPart"]
SinglePart(content_type, bs) ==
    [variant |-> "SinglePart", content_type |-> content_type, content |-> bs]
ExternalPart(enc_alg, hash_alg, size) ==
    [variant |-> "ExternalPart", content_type |-> text_a, url |-> text_a,
     expires |-> 0, size |-> size, enc_alg |-> enc_alg, key |-> << 104 >>,
     nonce |-> << >>, aad |-> << >>, hash_alg |-> hash_alg,
     content_hash |-> << 255 >>, description |-> << >>, filename |-> text_a]
MultiPart(part_semantics, parts) ==
    [variant |-> "MultiPart", part_semantics |-> part_semantics, parts |-> parts]
Part(disposition, language, part) ==
    [disposition |-> disposition, language |-> language, part |-> part]

\* a message ID of 32 octets
id32 == [i \in 1..32 |-> i]

\* "é", and its first octet alone, which is not UTF-8
e_acute == << 195, 169 >>
e_cut == << 195 >>

SingleParts ==
    {SinglePart(ct, b) : ct \in {text_markdown, text_a},
                         b \in ByteStrings(MaxBytesLen) \cup {e_acute, e_cut}}

ExternalParts ==
    { ExternalPart(Named("None"), Named("Unspecified"), 0),
      ExternalPart(Named("Aes128Gcm"), Named("Sha256"), 708234961),
      ExternalPart(Custom(300), Custom(200), 300),
      ExternalPart(Custom(1), Custom(1), 0) }

\* the parts that hold no other part
LeafParts ==
    {Part(d, << >>, NullPart) : d \in Dispositions}
        \cup {Part(Named("Render"), text_en, NullPart)}
        \cup {Part(Named("Render"), << >>, p) : p \in SingleParts \cup ExternalParts}

\* the parts a MultiPart is filled with
ChildParts ==
    { Part(Named("Render"), << >>, NullPart),
      Part(Named("Reaction"), text_en, SinglePart(text_markdown, << 104 >>)) }

RECURSIVE Nested(_)
\* the MultiParts of depth d (1: the parts are leaves)
Nested(d) ==
    IF d = 1
    THEN {Part(Named("Render"), << >>, MultiPart(Named("ChooseOne"), ps)) :
              ps \in SeqsUpTo(ChildParts, MaxParts)}
         \cup {Part(Named("Render"), << >>, MultiPart(s, << >>)) :
                   s \in {Custom(9), Custom(0)}}
    ELSE {Part(Named("Inline"), << >>, MultiPart(Named("ProcessAll"), << p >>)) :
              p \in Nested(d - 1)}

NestedParts == LeafParts \cup UNION {Nested(d) : d \in 1..MaxDepth}

BasePart == Part(Named("Render"), << >>, SinglePart(text_markdown, << 104 >>))
BaseTop == [replaces |-> None, topic_id |-> << >>, expires |-> None, in_reply_to |-> None]

\* what a caller builds a content from
Setups ==
    [salt : ByteStrings(MaxBytesLen), top : Tops, inserts : {<< >>}, part : {BasePart}]
        \cup [salt : ByteStrings(MaxBytesLen), top : {BaseTop},
              inserts : SeqsUpTo(ExtensionEntries \cup TaggedEntries, MaxExt),
              part : {BasePart}]
        \cup [salt : {<< 104 >>}, top : {BaseTop}, inserts : {<< >>}, part : NestedParts]

\* the content built from a setup: the struct literal, and one
\* extensions.insert(key, value) per entry
Build(setup) ==
    [salt |-> setup.salt, replaces |-> setup.top.replaces,
     topic_id |-> setup.top.topic_id, expires |-> setup.top.expires,
     in_reply_to |-> setup.top.in_reply_to,
     extensions |-> BTreeMap_from(setup.inserts), nested_part |-> setup.part]

\* MimiContent::default()
Default ==
    [salt |-> << >>, replaces |-> None, topic_id |-> << >>, expires |-> None,
     in_reply_to |-> None, extensions |-> BTreeMap_new,
     nested_part |-> Part(Named("Unspecified"), << >>, NullPart)]

SenderRoomPairs == { << << 97, 98 >>, << 99 >> >>, << << 97 >>, << 98, 99 >> >> }

\* the items an open enumeration is read from
WireItems ==
    {UInt(n) : n \in 0..MaxWire} \cup {UInt(65535), UInt(65536), UInt(70000)}
        \cup {NInt(0), Text(<< >>)}

\* the values of an open enumeration a caller can hold
EnumValues(ty) ==
    {Named(NamedVariants(ty)[i][1]) : i \in 1..Len(NamedVariants(ty))}
        \cup {Custom(u) : u \in {n \in 0..MaxWire \cup {65535} : n <= ReprMax(ty)}}

(***************************************************************************)
(* The caller of the content codec.                                        *)
(***************************************************************************)
\* the calls of the two constructors
Constructions ==
    [fn : {"simple_markdown_message"}, markdown : {<< >>, << 104 >>, e_acute},
     targets : {<< >>}, random_salt : ByteStrings(MaxBytesLen)]
        \cup [fn : {"simple_delivery_receipt"}, markdown : {<< >>},
              targets : SeqsUpTo({<< >>, << 104 >>, id32}, MaxStatuses),
              random_salt : ByteStrings(MaxBytesLen)]

\* the content a constructor call returns
Construct(call) ==
    IF call.fn = "simple_markdown_message"
    THEN simple_markdown_message(call.markdown, call.random_salt)
    ELSE simple_delivery_receipt(call.targets, call.random_salt)

Init ==
    /\ \/ \E setup \in Setups :
             content = Build(setup) /\ inserts = setup.inserts /\ built = None
       \/ \E call \in Constructions :
             content = Construct(call) /\ inserts = << >> /\ built = Some(call)
    /\ \E pair \in SenderRoomPairs : sender = pair[1] /\ room = pair[2]
    /\ bytes = None
    /\ decoded = None
    /\ id1 = None
    /\ id2 = None
    /\ enumTy = "Disposition"
    /\ enumWire = None
    /\ enumRead = None
    /\ enumValue = None
    /\ enumWritten = None
    /\ wire = None
    /\ rendered = None
    /\ calls = << >>

\* let result = content.serialize();
CallSerialize ==
    /\ ~bytes.some
    /\ bytes' = Some(MimiContent_serialize(content))
    /\ UNCHANGED << content, built, inserts, sender, room, decoded, id1, id2, enumVars, wire, rendered, calls >>

\* let value2 = MimiContent::deserialize(&result);
CallDeserialize ==
    /\ bytes.some
    /\ ~decoded.some
    /\ decoded' = Some(MimiContent_deserialize(bytes.val))
    /\ UNCHANGED << content, built, inserts, sender, room, bytes, id1, id2, enumVars, wire, rendered, calls >>

\* a faulty call, which leaves the ID it computed in in_reply_to
CallMessageId_storing_id ==
    /\ ~id2.some
    /\ IF id1.some
       THEN id2' = Some(message_id(content, sender, room)) /\ UNCHANGED id1
       ELSE id1' = Some(message_id(content, sender, room)) /\ UNCHANGED id2
    /\ content' = [content EXCEPT !.in_reply_to = Some(message_id(content, sender, room))]
    /\ UNCHANGED << built, inserts, sender, room, bytes, decoded, enumVars, wire, rendered, calls >>

\* content.message_id(sender, room), a first and a second time
CallMessageId ==
    /\ ~id2.some
    /\ IF id1.some
       THEN id2' = Some(message_id(content, sender, room)) /\ UNCHANGED id1
       ELSE id1' = Some(message_id(content, sender, room)) /\ UNCHANGED id2
    /\ UNCHANGED << content, built, inserts, sender, room, bytes, decoded, enumVars, wire, rendered, calls >>

\* content.string_rendering()
CallStringRendering ==
    /\ ~rendered.some
    /\ rendered' = Some(string_rendering(content))
    /\ UNCHANGED << contentVars, enumVars, wire, calls >>

Next == CallSerialize \/ CallDeserialize \/ CallMessageId \/ CallStringRendering

Spec == Init /\ [][Next]_vars

(***************************************************************************)
(* The caller of an open enumeration's codec.                              *)
(***************************************************************************)
InitEnum ==
    /\ content = Default
    /\ inserts = << >>
    /\ sender = << >>
    /\ room = << >>
    /\ bytes = None
    /\ decoded = None
    /\ id1 = None
    /\ id2 = None
    /\ enumTy \in OpenEnums
    /\ enumWire = None
    /\ enumRead = None
    /\ enumValue = None
    /\ enumWritten = None
    /\ wire = None
    /\ rendered = None
    /\ calls = << >>
    /\ built = None

\* a value is read from an item of the wire
EnumDeserialize ==
    /\ ~enumWire.some
    /\ ~enumValue.some
    /\ \E item \in WireItems :
          LET result == Deserialize(enumTy, item) IN
          /\ enumWire' = Some(item)
          /\ enumRead' = Some(result)
          /\ enumValue' = IF result.ok THEN Some(result.val) ELSE None
    /\ UNCHANGED << contentVars, enumTy, enumWritten, wire, rendered, calls >>

\* a value is made by the caller: Disposition::Render, Disposition::Custom(7)
EnumConstruct ==
    /\ ~enumWire.some
    /\ ~enumValue.some
    /\ \E v \in EnumValues(enumTy) : enumValue' = Some(v)
    /\ UNCHANGED << contentVars, enumTy, enumWire, enumRead, enumWritten, wire, rendered, calls >>

\* the value held is written
EnumSerialize ==
    /\ enumValue.some
    /\ ~enumWritten.some
    /\ enumWritten' = Some(Serialize(enumTy, enumValue.val))
    /\ UNCHANGED << contentVars, enumTy, enumWire, enumRead, enumValue, wire, rendered, calls >>

NextEnum == EnumDeserialize \/ EnumConstruct \/ EnumSerialize

SpecEnum == InitEnum /\ [][NextEnum]_vars

(***************************************************************************)
(* The reader of what a peer sent.  The peer's item is what serialize      *)
(* writes for a content, or that item with one change: elements cut off    *)
(* an array or added to it, another discriminator, another url, another    *)
(* map of extensions.                                                      *)
(***************************************************************************)
\* the contents whose items a peer starts from
WireContents ==
    {Build([salt |-> << 104 >>, top |-> BaseTop, inserts |-> << >>, part |-> p]) :
        p \in { BasePart,
                Part(Named("Render"), << >>, NullPart),
                Part(Named("Attachment"), << >>,
                     ExternalPart(Named("None"), Named("Unspecified"), 0)),
                Part(Named("Render"), << >>,
                     MultiPart(Named("ChooseOne"),
                               << Part(Named("Render"), << >>, NullPart) >>)) }}

\* the array with its i-th element replaced
SetElement(item, i, e) == Array(item.len, [item.array EXCEPT ![i] = e])
\* the array of the first k elements
FirstElements(item, k) == Array(k, SubSeq(item.array, 1, k))
\* the array with one more element
WithElement(item, e) == Array(item.len + 1, Append(item.array, e))

\* the item serialize writes for the content
AsWritten == Serialize("MimiContent", content)

\* the elements a peer adds to an array
ExtraElements ==
    {UInt(0), UInt(255), UInt(256), NInt(0), Text(text_a), Null, Tag(32, UInt(1))}

\* the discriminators a peer writes that name no variant
UnknownDiscriminants == {4, 200, 255, 256, 65536}

\* the elements a peer writes for the url of an ExternalPart
UrlItems ==
    {Text(text_a), Tag(32, Text(text_a)), Tag(1, Text(text_a)), Tag(32, UInt(1)),
     Tag(32, Bytes(text_a)), UInt(1), Bytes(text_a), Text(<< 255 >>)}

\* the entries a peer writes into the map of extensions
WireEntries == {<< into_value(e[1]), e[2] >> : e \in ExtensionEntries}

\* the octets of the item arrive
Receive(item) ==
    /\ ~wire.some
    /\ ~bytes.some
    /\ wire' = Some(item)
    /\ bytes' = Some(Encode(item))
    /\ UNCHANGED << content, built, inserts, sender, room, decoded, id1, id2, enumVars,
                    rendered, calls >>

InitWire ==
    /\ content \in WireContents
    /\ inserts = << >>
    /\ sender = << >>
    /\ room = << >>
    /\ bytes = None
    /\ decoded = None
    /\ id1 = None
    /\ id2 = None
    /\ enumTy = "Disposition"
    /\ enumWire = None
    /\ enumRead = None
    /\ enumValue = None
    /\ enumWritten = None
    /\ wire = None
    /\ rendered = None
    /\ calls = << >>
    /\ built = None

\* the items whose array of the content, or of its part, ends early
ShortItems ==
    {FirstElements(AsWritten, k) : k \in 0..6}
        \cup {SetElement(AsWritten, 7, FirstElements(AsWritten.array[7], k)) :
                 k \in 0..(AsWritten.array[7].len - 1)}

\* the items whose array of the content, or of its part, goes on
LongItems ==
    {WithElement(AsWritten, e) : e \in ExtraElements}
        \cup {SetElement(AsWritten, 7, WithElement(AsWritten.array[7], e)) :
                 e \in ExtraElements}

\* the items whose part carries a discriminator that names no variant
DiscriminantItems ==
    {SetElement(AsWritten, 7, SetElement(AsWritten.array[7], 3, UInt(d))) :
        d \in UnknownDiscriminants}

\* the items whose ExternalPart carries another element for its url
UrlReplaced(u) == SetElement(AsWritten, 7, SetElement(AsWritten.array[7], 5, u))

\* the items that carry a map of extensions, its entries in any order
ExtensionsReplaced(pairs) == SetElement(AsWritten, 6, Map(Len(pairs), pairs))

ReceiveAsWritten ==
    /\ ~wire.some
    /\ Receive(AsWritten)

ReceiveShort ==
    /\ ~wire.some
    /\ \E item \in ShortItems : Receive(item)

ReceiveLong ==
    /\ ~wire.some
    /\ \E item \in LongItems : Receive(item)

ReceiveDiscriminant ==
    /\ ~wire.some
    /\ \E item \in DiscriminantItems : Receive(item)

ReceiveUrl ==
    /\ content.nested_part.part.variant = "ExternalPart"
    /\ \E u \in UrlItems : Receive(UrlReplaced(u))

ReceiveExtensions ==
    /\ ~wire.some
    /\ \E pairs \in SeqsUpTo(WireEntries, MaxExt) : Receive(ExtensionsReplaced(pairs))

NextWire ==
    \/ ReceiveAsWritten
    \/ ReceiveShort
    \/ ReceiveLong
    \/ ReceiveDiscriminant
    \/ ReceiveUrl
    \/ ReceiveExtensions
    \/ CallDeserialize

SpecWire == InitWire /\ [][NextWire]_vars

(***************************************************************************)
(* The caller of the Timestamp codec: a Timestamp is made and written, or  *)
(* an item comes from a peer, and the octets are read as a Timestamp.      *)
(***************************************************************************)
\* the seconds a Timestamp is made of
TimestampSamples == 0..MaxTimestamp \cup {255, 256, 65535, 65536, 2147483647}

\* the items received that are tag 62 around an unsigned integer
TaggedSeconds == {Tag(62, UInt(t)) : t \in TimestampSamples}
\* the items received with no tag
NoTag == {UInt(t) : t \in {0, 23, 24, 65536}} \cup {Text(text_a), Null}
\* the items received with a tag of another number, the bignum 5 included
WrongTag ==
    {Tag(n, UInt(t)) : n \in {0, 1, 32, 61, 63, 318}, t \in {0, 24}}
        \cup {Tag(2, Bytes(<< 5 >>))}
\* the items received that are tag 62 around something that is no integer
NonInteger ==
    {Tag(62, i) : i \in {Text(text_a), Text(<< 49 >>), Bytes(<< 5 >>), Null, Bool(TRUE),
                         Array(1, << UInt(5) >>), Map(0, << >>), Tag(62, UInt(5))}}
\* the items received that are tag 62 around an integer below 0 or above
\* 2^64 - 1: -1, -6, -65537, the bignums 2^64 and -1 - 2^64, and the
\* bignum -1
OutOfRange ==
    {Tag(62, i) : i \in {NInt(0), NInt(5), NInt(65536),
                         Tag(2, Bytes(<< 1, 0, 0, 0, 0, 0, 0, 0, 0 >>)),
                         Tag(3, Bytes(<< 1, 0, 0, 0, 0, 0, 0, 0, 0 >>)),
                         Tag(3, Bytes(<< >>))}}
\* the items received that are tag 62 around a bignum within 0..2^64 - 1
TaggedBignums == {Tag(62, Tag(2, Bytes(b))) : b \in {<< 5 >>, << 0, 1, 0 >>, << >>}}

TimestampItems ==
    TaggedSeconds \cup NoTag \cup WrongTag \cup NonInteger \cup OutOfRange \cup TaggedBignums

InitTimestamp ==
    /\ content = Default
    /\ inserts = << >>
    /\ sender = << >>
    /\ room = << >>
    /\ bytes = None
    /\ decoded = None
    /\ id1 = None
    /\ id2 = None
    /\ enumTy = "Timestamp"
    /\ enumWire = None
    /\ enumRead = None
    /\ enumValue = None
    /\ enumWritten = None
    /\ wire = None
    /\ rendered = None
    /\ calls = << >>
    /\ built = None

\* Timestamp(t)
TimestampConstruct ==
    /\ ~enumValue.some
    /\ ~wire.some
    /\ \E t \in TimestampSamples : enumValue' = Some(Timestamp(t))
    /\ UNCHANGED << contentVars, enumTy, enumWire, enumRead, enumWritten, wire, rendered, calls >>

\* the Timestamp held is written
TimestampSerialize ==
    /\ enumValue.some
    /\ ~enumWritten.some
    /\ enumWritten' = Some(Timestamp_serialize(enumValue.val))
    /\ bytes' = Some(Encode(Timestamp_serialize(enumValue.val)))
    /\ UNCHANGED << content, built, inserts, sender, room, decoded, id1, id2,
                    enumTy, enumWire, enumRead, enumValue, wire, rendered, calls >>

\* an item comes from a peer
TimestampReceive ==
    /\ ~enumValue.some
    /\ ~wire.some
    /\ \E item \in TimestampItems :
          /\ wire' = Some(item)
          /\ bytes' = Some(Encode(item))
    /\ UNCHANGED << content, built, inserts, sender, room, decoded, id1, id2, enumVars,
                    rendered, calls >>

\* the octets held are read as a Timestamp
TimestampDeserialize ==
    /\ bytes.some
    /\ ~enumRead.some
    /\ enumRead' = Some(Timestamp_from_reader(bytes.val))
    /\ UNCHANGED << contentVars, enumTy, enumWire, enumValue, enumWritten, wire, rendered, calls >>

NextTimestamp ==
    TimestampConstruct \/ TimestampSerialize \/ TimestampReceive \/ TimestampDeserialize

SpecTimestamp == InitTimestamp /\ [][NextTimestamp]_vars

(***************************************************************************)
(* Properties of the content codec, checked under Spec.                    *)
(***************************************************************************)
\* n is the declared value of a named variant of the open enumeration
IsNamedValue(ty, n) ==
    \E j \in 1..Len(NamedVariants(ty)) : NamedVariants(ty)[j][2] = n

\* the value is not a Custom that holds the value of a named variant
NoNamedCustom(ty, v) == IsCustom(v) => ~IsNamedValue(ty, v.Custom)

RECURSIVE PartIsCanonical(_)
\* no open enumeration of the part, or of a part in it, is a Custom that
\* holds the value of a named variant
PartIsCanonical(p) ==
    /\ NoNamedCustom("Disposition", p.disposition)
    /\ IF p.part.variant = "ExternalPart"
       THEN /\ NoNamedCustom("EncryptionAlgorithm", p.part.enc_alg)
            /\ NoNamedCustom("HashAlgorithm", p.part.hash_alg)
       ELSE IF p.part.variant = "MultiPart"
       THEN /\ NoNamedCustom("PartSemantics", p.part.part_semantics)
            /\ \A i \in 1..Len(p.part.parts) : PartIsCanonical(p.part.parts[i])
       ELSE TRUE

\* a value that Value::deserialize gives back as another one: tag 2 or 3
\* around at most 16 octets that stand for an integer of 64 bits, or that
\* start with a zero
IsShortBignum(v) ==
    /\ Is(v, "tag")
    /\ v.tag \in {2, 3}
    /\ Is(v.item, "bytes")
    /\ Len(v.item.bytes) <= 16
    /\ (Len(StripZeros(v.item.bytes)) <= 8 \/ StripZeros(v.item.bytes) # v.item.bytes)

\* no value of the extensions is such a big number
ExtensionsAreCanonical(c) ==
    \A i \in 1..Len(c.extensions) : ~IsShortBignum(c.extensions[i][2])

SameEntries(m1, m2) ==
    /\ \A i \in 1..Len(m1) : \E j \in 1..Len(m2) : m1[i] = m2[j]
    /\ \A j \in 1..Len(m2) : \E i \in 1..Len(m1) : m1[i] = m2[j]

\* the content with the extensions inserted in the order p of their indices
Reinserted(p) ==
    [content EXCEPT
        !.extensions = BTreeMap_from([i \in 1..Len(inserts) |-> inserts[p[i]]])]

Written == Decode(bytes.val, 1)

\* the element written for an optional byte string
OptionalBytesItem(o) == IF o.some THEN Bytes(o.val) ELSE Null

\* C3: serialize writes one array of exactly 7 elements and nothing else:
\* salt, replaces, topic_id, expires, in_reply_to, extensions as a map, and
\* nested_part as one element, the array of the NestedPart.
C3_OuterArrayOfSeven ==
    bytes.some =>
        /\ Written.ok
        /\ Written.val.next = Len(bytes.val) + 1
        /\ Is(Written.val.item, "array")
        /\ Written.val.item.len = 7
        /\ Len(Written.val.item.array) = 7
        /\ LET e == Written.val.item.array IN
           /\ e[1] = Bytes(content.salt)
           /\ e[2] = OptionalBytesItem(content.replaces)
           /\ e[3] = Bytes(content.topic_id)
           /\ IF content.expires.some
              THEN e[4] = Array(2, << Bool(content.expires.val.relative),
                                      UInt(content.expires.val.time) >>)
              ELSE e[4] = Null
           /\ e[5] = OptionalBytesItem(content.in_reply_to)
           /\ Is(e[6], "map")
           /\ e[6].len = Len(content.extensions)
           /\ Is(e[7], "array")
           /\ e[7].len = Len(e[7].array)
           /\ e[7].len \in {3, 5, 15}

\* an ExternalPart, of 15 elements, was written into the seventh element
C3_Witness ==
    /\ bytes.some
    /\ Written.ok
    /\ Written.val.item.len = 7
    /\ content.nested_part.part.variant = "ExternalPart"
    /\ Written.val.item.array[7].len = 15

\* the number written for a value of an open enumeration
EnumItem(ty, v) ==
    UInt(IF IsCustom(v) THEN v.Custom
         ELSE LET vs == NamedVariants(ty) IN
              vs[CHOOSE j \in 1..Len(vs) : vs[j][1] = v.variant][2])

RECURSIVE PartArrayIsOf(_, _)
\* the item is the array of the part: disposition, language, the
\* discriminator, and the fields of the variant in declaration order
PartArrayIsOf(item, p) ==
    /\ Is(item, "array")
    /\ item.len = Len(item.array)
    /\ item.len >= 3
    /\ item.array[1] = EnumItem("Disposition", p.disposition)
    /\ item.array[2] = Text(p.language)
    /\ LET e == item.array
           part == p.part
       IN  IF part.variant = "NullPart"
           THEN item.len = 3 /\ e[3] = UInt(0)
           ELSE IF part.variant = "SinglePart"
           THEN /\ item.len = 5
                /\ e[3] = UInt(1)
                /\ e[4] = Text(part.content_type)
                /\ e[5] = Bytes(part.content)
           ELSE IF part.variant = "ExternalPart"
           THEN /\ item.len = 15
                /\ e[3] = UInt(2)
                /\ e[4] = Text(part.content_type)
                /\ e[5] = Text(part.url)
                /\ e[6] = UInt(part.expires)
                /\ e[7] = UInt(part.size)
                /\ e[8] = EnumItem("EncryptionAlgorithm", part.enc_alg)
                /\ e[9] = Bytes(part.key)
                /\ e[10] = Bytes(part.nonce)
                /\ e[11] = Bytes(part.aad)
                /\ e[12] = EnumItem("HashAlgorithm", part.hash_alg)
                /\ e[13] = Bytes(part.content_hash)
                /\ e[14] = Text(part.description)
                /\ e[15] = Text(part.filename)
           ELSE /\ item.len = 5
                /\ e[3] = UInt(3)
                /\ e[4] = EnumItem("PartSemantics", part.part_semantics)
                /\ Is(e[5], "array")
                /\ e[5].len = Len(part.parts)
                /\ Len(e[5].array) = Len(part.parts)
                /\ \A i \in 1..Len(part.parts) : PartArrayIsOf(e[5].array[i], part.parts[i])

\* C4: the array written for a NestedPart, at any depth, has 3 elements for
\* NullPart, 5 for SinglePart, 15 for ExternalPart and 5 for MultiPart; its
\* third element is the discriminator 0, 1, 2 or 3, and the fields of the
\* variant follow it in declaration order.
C4_NestedPartArray ==
    bytes.some =>
        /\ Written.ok
        /\ Is(Written.val.item, "array")
        /\ Len(Written.val.item.array) = 7
        /\ PartArrayIsOf(Written.val.item.array[7], content.nested_part)

\* a MultiPart in a MultiPart was written, the inner one with two parts
C4_Witness ==
    /\ bytes.some
    /\ content.nested_part.part.variant = "MultiPart"
    /\ Len(content.nested_part.part.parts) = 1
    /\ content.nested_part.part.parts[1].part.variant = "MultiPart"
    /\ Len(content.nested_part.part.parts[1].part.parts) = 2
    /\ PartArrayIsOf(Written.val.item.array[7], content.nested_part)

\* the octets that message_id is to hash: sender, room, serialize(content)
\* and the salt, in this order
HashedInput == sender \o room \o MimiContent_serialize(content) \o content.salt

\* C5: message_id returns exactly 32 octets: 0x01, then the first 31 octets
\* of SHA-256 of sender, room, serialize(content) and content.salt, in this
\* order.
C5_MessageIdLayout ==
    id1.some =>
        /\ Len(id1.val) = 32
        /\ id1.val[1] = 1
        /\ \A i \in 2..32 : id1.val[i] = [sha256 |-> HashedInput, octet |-> i - 1]

\* an identifier was made of a content with a salt, whose octets are hashed
\* twice: in the serialization and after it
C5_Witness ==
    /\ id1.some
    /\ Len(id1.val) = 32
    /\ content.salt # << >>
    /\ id1.val[2].sha256 = HashedInput

OneOctetChanged(s) ==
    {[s EXCEPT ![i] = (s[i] + d) % 256] : i \in 1..Len(s), d \in {1, 128, 151}}

\* the content with another salt
Resalted(s) == [content EXCEPT !.salt = s]

\* C7: a content that differs in its salt only is hashed from other octets
\* and so, SHA-256 taken to be free of collisions, has another identifier;
\* so has one whose salt differs in a single octet.
C7_SaltChangesMessageId ==
    id1.some =>
        \A s \in (ByteStrings(MaxBytesLen) \cup OneOctetChanged(content.salt)) \ {content.salt} :
            /\ message_id_value(Resalted(s), sender, room) # HashedInput
            /\ message_id(Resalted(s), sender, room) # id1.val

\* an identifier was made of a content whose salt has an octet to change
C7_Witness ==
    /\ id1.some
    /\ content.salt = << 104 >>
    /\ << 105 >> \in OneOctetChanged(content.salt)
    /\ message_id(Resalted(<< 105 >>), sender, room) # id1.val

(***************************************************************************)
(* Properties of the open enumerations, checked under SpecEnum.            *)
(***************************************************************************)
\* the integer n was read
WasRead(n) == enumWire.some /\ enumWire.val = UInt(n)

\* C8: an 8-bit open enumeration reads every n of 0..255: as the named
\* variant whose declared value is n when there is one, as Custom(n) when
\* there is none; and the value read is written as n again.
C8_OpenEnumReadsNamedOrCustom ==
    (enumTy \in OpenEnums8 /\ enumWire.some /\ Is(enumWire.val, "uint")
        /\ enumWire.val.uint <= 255) =>
        LET n == enumWire.val.uint
            vs == NamedVariants(enumTy)
        IN  /\ enumRead.val.ok
            /\ enumValue = Some(enumRead.val.val)
            /\ \A j \in 1..Len(vs) : vs[j][2] = n => enumValue.val = Named(vs[j][1])
            /\ (\A j \in 1..Len(vs) : vs[j][2] # n) => enumValue.val = Custom(n)
            /\ enumWritten.some => enumWritten.val = UInt(n)

\* 1 was read as Render, not as Custom(1), and written as 1
C8_Witness ==
    /\ enumTy = "Disposition"
    /\ WasRead(1)
    /\ enumRead.val.ok
    /\ enumValue.val = Named("Render")
    /\ enumWritten.some
    /\ enumWritten.val = UInt(1)

\* the declared values of the named variants of an open enumeration
DeclaredValues(ty) == {NamedVariants(ty)[j][2] : j \in 1..Len(NamedVariants(ty))}

\* C9: an open enumeration is written as one unsigned integer: the declared
\* value of a named variant (Disposition 0..8, PartSemantics 0..2,
\* MessageStatus 0..6, HashAlgorithm 0..12, EncryptionAlgorithm 0..33), and n
\* for Custom(n), also when n is the value of a named variant.
C9_OpenEnumWritesDeclaredValue ==
    /\ DeclaredValues("Disposition") = 0..8
    /\ DeclaredValues("PartSemantics") = 0..2
    /\ DeclaredValues("MessageStatus") = 0..6
    /\ DeclaredValues("HashAlgorithm") = 0..12
    /\ DeclaredValues("EncryptionAlgorithm") = 0..33
    /\ enumWritten.some =>
          LET v == enumValue.val
              vs == NamedVariants(enumTy)
          IN  /\ Is(enumWritten.val, "uint")
              /\ IsCustom(v) => enumWritten.val.uint = v.Custom
              /\ ~IsCustom(v) =>
                    \E j \in 1..Len(vs) :
                        vs[j][1] = v.variant /\ enumWritten.val.uint = vs[j][2]

\* Custom(1), made by the caller, was written as 1
C9_Witness ==
    /\ enumWritten.some
    /\ ~enumWire.some
    /\ enumValue.val = Custom(1)
    /\ enumWritten.val = UInt(1)

\* C10: an open enumeration is read at its declared width.  An 8-bit one
\* accepts the integers 0..255 and no greater one; EncryptionAlgorithm
\* accepts 0..65535 and no greater one, reads 0..33 as the named algorithm
\* and every other value, 256..65535 too, as Custom(n).
C10_OpenEnumWidth ==
    (enumWire.some /\ Is(enumWire.val, "uint")) =>
        LET n == enumWire.val.uint IN
        /\ enumTy \in OpenEnums8 => (enumRead.val.ok <=> n <= 255)
        /\ enumTy = "EncryptionAlgorithm" =>
              /\ enumRead.val.ok <=> n <= 65535
              /\ n <= 33 => /\ ~IsCustom(enumRead.val.val)
                            /\ Discriminant(enumTy, enumRead.val.val.variant) = n
              /\ (33 < n /\ n <= 65535) => enumRead.val.val = Custom(n)

\* 256 was refused by HashAlgorithm
C10_Witness ==
    /\ enumTy = "HashAlgorithm"
    /\ WasRead(256)
    /\ ~enumRead.val.ok

(***************************************************************************)
(* The caller of the status report codec: a report is made, written, and   *)
(* the octets are read as a report.                                        *)
(***************************************************************************)
\* the entries a report is made of
StatusSamples ==
    [mimi_id : {<< >>, << 104 >>, id32},
     status : {Named("Unread"), Named("Read"), Custom(200), Custom(1)}]

MessageStatusReports == [statuses : SeqsUpTo(StatusSamples, MaxStatuses)]

InitReport ==
    /\ content = Default
    /\ inserts = << >>
    /\ sender = << >>
    /\ room = << >>
    /\ bytes = None
    /\ decoded = None
    /\ id1 = None
    /\ id2 = None
    /\ enumTy = "MessageStatusReport"
    /\ enumWire = None
    /\ enumRead = None
    /\ enumValue = None
    /\ enumWritten = None
    /\ wire = None
    /\ rendered = None
    /\ calls = << >>
    /\ built = None

\* MessageStatusReport { statuses: vec![...] }
ReportConstruct ==
    /\ ~enumValue.some
    /\ \E report \in MessageStatusReports : enumValue' = Some(report)
    /\ UNCHANGED << contentVars, enumTy, enumWire, enumRead, enumWritten, wire,
                    rendered, calls >>

\* let result = value.serialize().unwrap();
ReportSerialize ==
    /\ enumValue.some
    /\ ~enumWritten.some
    /\ enumWritten' = Some(MessageStatusReport_serialize(enumValue.val))
    /\ bytes' = Some(MessageStatusReport_serialize(enumValue.val).val)
    /\ UNCHANGED << content, built, inserts, sender, room, decoded, id1, id2,
                    enumTy, enumWire, enumRead, enumValue, wire, rendered, calls >>

\* let value2 = MessageStatusReport::deserialize(&result);
ReportDeserialize ==
    /\ bytes.some
    /\ ~enumRead.some
    /\ enumRead' = Some(MessageStatusReport_deserialize(bytes.val))
    /\ UNCHANGED << contentVars, enumTy, enumWire, enumValue, enumWritten, wire,
                    rendered, calls >>

NextReport == ReportConstruct \/ ReportSerialize \/ ReportDeserialize

SpecReport == InitReport /\ [][NextReport]_vars

(***************************************************************************)
(* Threads that call the codec at the same time, each on values of its own. *)
(* A call of serialize, deserialize or string_rendering is one step; a call *)
(* of message_id is the steps of its body: the four value.extend(..), then  *)
(* the digest.  What a call holds meanwhile is local to it.                 *)
(***************************************************************************)
Threads == {1, 2}
Operations == {"serialize", "deserialize", "message_id", "string_rendering"}

\* the contents a thread calls the codec on
ThreadContents ==
    { Default,
      [Default EXCEPT !.salt = << 104 >>, !.nested_part = BasePart],
      [Default EXCEPT !.nested_part =
                          Part(Named("Render"), << >>, SinglePart(text_markdown, << 255 >>))] }

\* the arguments of a call: the content, the URIs, the octets to read
Arguments ==
    [content : ThreadContents, sender : {<< 97 >>}, room : {<< 98 >>},
     input : {MimiContent_serialize(Default), << 135 >>}]

\* a thread that has made no call yet
Idle ==
    [op |-> "none", arg |-> CHOOSE a \in Arguments : TRUE, pc |-> "idle",
     value |-> << >>, result |-> None, done |-> 0]

\* a faulty buffer, one for all threads: what a call appends, every call
\* under way sees
Extend_shared(cs, t, octets) ==
    [u \in DOMAIN cs |-> [cs[u] EXCEPT !.value = @ \o octets]]

\* value.extend(octets), on the Vec of this call
Extend(cs, t, octets) == [cs EXCEPT ![t].value = @ \o octets]

\* what the next value.extend of message_id appends, and where the call
\* is after it
Piece(call) ==
    CASE call.pc = "extend_sender" -> call.arg.sender
      [] call.pc = "extend_room" -> call.arg.room
      [] call.pc = "extend_serialize" -> MimiContent_serialize(call.arg.content)
      [] call.pc = "extend_salt" -> call.arg.content.salt
After(pc) ==
    CASE pc = "extend_sender" -> "extend_room"
      [] pc = "extend_room" -> "extend_serialize"
      [] pc = "extend_serialize" -> "extend_salt"
      [] pc = "extend_salt" -> "digest"

\* what a call of one step returns
Return(op, arg) ==
    CASE op = "serialize" -> MimiContent_serialize(arg.content)
      [] op = "deserialize" -> MimiContent_deserialize(arg.input)
      [] op = "string_rendering" -> string_rendering(arg.content)

InitThreads ==
    /\ content = Default
    /\ inserts = << >>
    /\ sender = << >>
    /\ room = << >>
    /\ bytes = None
    /\ decoded = None
    /\ id1 = None
    /\ id2 = None
    /\ enumTy = "Disposition"
    /\ enumWire = None
    /\ enumRead = None
    /\ enumValue = None
    /\ enumWritten = None
    /\ wire = None
    /\ rendered = None
    /\ calls = [t \in Threads |-> Idle]
    /\ built = None

\* a thread calls an operation; let mut value = Vec::new()
ThreadCall(t) ==
    /\ calls[t].pc = "idle"
    /\ calls[t].done < MaxCalls
    /\ \E op \in Operations, arg \in Arguments :
          calls' = [calls EXCEPT ![t] =
                       [op |-> op, arg |-> arg,
                        pc |-> IF op = "message_id" THEN "extend_sender" ELSE "run",
                        value |-> << >>, result |-> None, done |-> @.done]]
    /\ UNCHANGED << contentVars, enumVars, wire, rendered >>

\* serialize, deserialize or string_rendering runs and returns
ThreadReturn(t) ==
    /\ calls[t].pc = "run"
    /\ calls' = [calls EXCEPT ![t].result = Some(Return(calls[t].op, calls[t].arg)),
                              ![t].pc = "idle",
                              ![t].done = @ + 1]
    /\ UNCHANGED << contentVars, enumVars, wire, rendered >>

\* message_id: one value.extend(..)
ThreadExtend(t) ==
    /\ calls[t].pc \in {"extend_sender", "extend_room", "extend_serialize", "extend_salt"}
    /\ calls' = [Extend(calls, t, Piece(calls[t])) EXCEPT ![t].pc = After(calls[t].pc)]
    /\ UNCHANGED << contentVars, enumVars, wire, rendered >>

\* message_id: the digest of value, and the ID made of it
ThreadDigest(t) ==
    /\ calls[t].pc = "digest"
    /\ calls' = [calls EXCEPT
                    ![t].result = Some(<< 1 >> \o SubSeq(Sha256_digest(calls[t].value), 1, 31)),
                    ![t].pc = "idle",
                    ![t].done = @ + 1]
    /\ UNCHANGED << contentVars, enumVars, wire, rendered >>

NextThreads ==
    \E t \in Threads : ThreadCall(t) \/ ThreadReturn(t) \/ ThreadExtend(t) \/ ThreadDigest(t)

SpecThreads == InitThreads /\ [][NextThreads]_vars

(***************************************************************************)
(* Properties of the reader, checked under SpecWire.                       *)
(***************************************************************************)
\* what the derived Deserialize returns for the item received, before
\* MimiContent::deserialize maps its error
Derived == Deserialize("MimiContent", wire.val)

\* the zero-based position of the first element that a short array lacks
FirstMissing(item) ==
    IF Len(item.array) < 7 THEN Len(item.array) ELSE Len(item.array[7].array)

\* C11, as stated: decoding an array that ends before all positional fields
\* are read fails with an error that carries the zero-based position of the
\* first missing element, and returns no record.
C11_MissingFieldCarriesPosition ==
    (decoded.some /\ wire.val \in ShortItems) =>
        /\ IsErr(decoded.val)
        /\ ~Derived.ok
        /\ Derived.err = [invalid_length |-> FirstMissing(wire.val)]

\* an array of the first six fields was read: the error of the derive
\* carries position 0, and the caller is handed DeserializationFailed
C11_Witness ==
    /\ decoded.some
    /\ wire.val = FirstElements(AsWritten, 6)
    /\ decoded.val = Err("DeserializationFailed")
    /\ Derived = Err([invalid_length |-> 0])

\* C12, as stated: decoding an array that holds elements after the last
\* declared field returns an error value to the caller, whatever the extra
\* element is, and never a record.
C12_TrailingElementsIsAnError ==
    (decoded.some /\ wire.val \in LongItems) => IsErr(decoded.val)

\* an array with the integer 0 after its last field was read: the assert!
\* failed, and the caller was returned nothing
C12_Witness ==
    /\ decoded.some
    /\ wire.val = WithElement(AsWritten, UInt(0))
    /\ IsPanic(decoded.val)

\* the discriminator the part of the item received carries
Discriminator == wire.val.array[7].array[3]

UrlOf(item) == item.array[7].array[5]

\* the items received for a url that are text with nothing around it, and
\* the ones that are tag 32 around something that is not text
UntaggedText == {Text(text_a)}
Tag32NonText == {Tag(32, UInt(1)), Tag(32, Bytes(text_a))}

\* C15, as stated: the url of an ExternalPart is written as tag 32 around a
\* text string, and reading a url that is text without a tag, or tag 32
\* around something other than text, fails.
C15_UrlIsTag32 ==
    (wire.some /\ content.nested_part.part.variant = "ExternalPart") =>
        /\ UrlOf(AsWritten) = Tag(32, Text(content.nested_part.part.url))
        /\ (decoded.some
               /\ wire.val \in {UrlReplaced(u) : u \in UntaggedText \cup Tag32NonText})
              => IsErr(decoded.val)

\* C15, amended: the url of an ExternalPart is written as a text string
\* with no tag around it.  Reading accepts the text string whether bare or
\* behind a tag of any number, and gives the same url; it fails, with
\* DeserializationFailed, for anything that is not well-formed text, with or
\* without tag 32 around it.
C15_UrlIsBareText ==
    (wire.some /\ content.nested_part.part.variant = "ExternalPart") =>
        /\ UrlOf(AsWritten) = Text(content.nested_part.part.url)
        /\ (decoded.some /\ wire.val \in {UrlReplaced(u) : u \in UrlItems}) =>
              IF UrlOf(wire.val) \in UntaggedText
                    \cup {Tag(32, Text(text_a)), Tag(1, Text(text_a))}
              THEN decoded.val = Ok(content)
              ELSE decoded.val = Err("DeserializationFailed")

\* an ExternalPart whose url came as text behind tag 32 was read, and gave
\* the content that is written with the url bare
C15_Witness ==
    /\ decoded.some
    /\ content.nested_part.part.variant = "ExternalPart"
    /\ wire.val = UrlReplaced(Tag(32, Text(text_a)))
    /\ UrlOf(AsWritten) = Text(text_a)
    /\ decoded.val = Ok(content)

\* the pairs of the extensions map of the item received
WirePairs == wire.val.array[6].map

\* the sequences of wire entries in which no key comes twice, and the ones
\* in which one does
DistinctKeys(pairs) == \A i, j \in 1..Len(pairs) : pairs[i][1] = pairs[j][1] => i = j
ExtensionItems == {ExtensionsReplaced(pairs) : pairs \in SeqsUpTo(WireEntries, MaxExt)}
DistinctKeyItems == {item \in ExtensionItems : DistinctKeys(item.array[6].map)}
DuplicateKeyItems == ExtensionItems \ DistinctKeyItems

\* C19, as stated: deserialize refuses an input whose extensions map has
\* the same key twice; it returns an error, and never a content in which
\* one of the two values was kept.
C19_DuplicateKeyIsRejected ==
    (decoded.some /\ wire.val \in DuplicateKeyItems) => IsErr(decoded.val)

\* a map with the key 1 twice, for "a" and then for 7, was read as a
\* content whose extensions hold 1 once, for 7
C19_Witness ==
    /\ decoded.some
    /\ wire.val \in DuplicateKeyItems
    /\ WirePairs = << << UInt(1), Text(text_a) >>, << UInt(1), UInt(7) >> >>
    /\ decoded.val = Ok([content EXCEPT
                            !.extensions = << << ExtensionName_Number(1), UInt(7) >> >>])

\* the pairs in the opposite order
Reversed(pairs) == [i \in 1..Len(pairs) |-> pairs[Len(pairs) + 1 - i]]

\* the keys of a decoded mapping in iteration order, as they are written
KeysOf(m) == [i \in 1..Len(m) |-> into_value(m[i][1])]

\* C20, as stated: the decoded extensions hold the keys in the order they
\* have on the wire, whether or not that order is ascending.
C20_DecodedKeysInWireOrder ==
    (decoded.some /\ wire.val \in DistinctKeyItems) =>
        /\ decoded.val.ok
        /\ KeysOf(decoded.val.val.extensions) = [i \in 1..Len(WirePairs) |-> WirePairs[i][1]]

\* C20, amended: the decoded extensions hold exactly the entries of the
\* wire map, each key once with its value, in the order of the keys and not
\* in the order of the wire: the same entries in the opposite wire order
\* decode to the same content, and keys of one kind are iterated ascending.
C20_DecodedKeysInKeyOrder ==
    (decoded.some /\ wire.val \in DistinctKeyItems) =>
        /\ decoded.val.ok
        /\ LET m == decoded.val.val.extensions IN
           /\ Len(m) = Len(WirePairs)
           /\ \A i \in 1..Len(WirePairs) : \E j \in 1..Len(m) :
                 /\ into_value(m[j][1]) = WirePairs[i][1]
                 /\ m[j][2] = WirePairs[i][2]
           /\ \A i, j \in 1..Len(m) :
                 (i < j /\ DOMAIN m[i][1] = DOMAIN m[j][1])
                     => ExtensionName_lt(m[i][1], m[j][1])
        /\ MimiContent_deserialize(Encode(ExtensionsReplaced(Reversed(WirePairs))))
              = decoded.val

\* a map with the key 2 before the key 1 was read as a content whose
\* extensions are iterated 1, 2
C20_Witness ==
    /\ decoded.some
    /\ wire.val \in DistinctKeyItems
    /\ WirePairs = << << UInt(2), UInt(7) >>, << UInt(1), Text(text_a) >> >>
    /\ decoded.val.ok
    /\ decoded.val.val.extensions = << << ExtensionName_Number(1), Text(text_a) >>,
                                       << ExtensionName_Number(2), UInt(7) >> >>

(***************************************************************************)
(* Properties of the Timestamp codec, checked under SpecTimestamp.         *)
(***************************************************************************)
\* C16: a Timestamp(t) is written as tag 62 around the unsigned integer t,
\* in the octets d8 3e and the head of t, and reading these octets gives
\* Timestamp(t) again; reading tag 62 around an unsigned integer t that a
\* peer sent gives Timestamp(t) as well.
C16_TimestampIsTag62 ==
    /\ enumWritten.some =>
          /\ enumWritten.val = Tag(62, UInt(enumValue.val.Timestamp))
          /\ bytes.val = << 216, 62 >> \o Header(0, enumValue.val.Timestamp)
          /\ enumRead.some => enumRead.val = Ok(enumValue.val)
    /\ (enumRead.some /\ wire.some /\ wire.val \in TaggedSeconds) =>
          enumRead.val = Ok(Timestamp(wire.val.item.uint))

\* Timestamp(65536) was written, in seven octets, and read back
C16_Witness ==
    /\ enumValue = Some(Timestamp(65536))
    /\ bytes = Some(<< 216, 62, 26, 0, 1, 0, 0 >>)
    /\ enumRead = Some(Ok(Timestamp(65536)))

\* C17: reading a Timestamp fails, with an error and no Timestamp, when the
\* item has no tag, when its tag is not 62, when tag 62 is around something
\* that is no integer, and when tag 62 is around an integer below 0 or
\* above 2^64 - 1.
C17_TimestampDecodeFails ==
    (enumRead.some /\ wire.some) =>
        /\ wire.val \in NoTag \cup WrongTag =>
              enumRead.val = Err([invalid_type |-> "Timestamp must have tag 62"])
        /\ wire.val \in NonInteger =>
              enumRead.val = Err([invalid_type |-> "Timestamp must be an integer"])
        /\ wire.val \in OutOfRange => IsErr(enumRead.val)
        /\ (wire.val \in OutOfRange /\ Is(wire.val.item, "nint")) =>
              enumRead.val = Err([invalid_value |-> "timestamp must fit in u64"])

\* tag 62 around -1 was read, and refused as not fitting a u64
C17_Witness ==
    /\ wire = Some(Tag(62, NInt(0)))
    /\ bytes = Some(<< 216, 62, 32 >>)
    /\ enumRead = Some(Err([invalid_value |-> "timestamp must fit in u64"]))

(***************************************************************************)
(* Properties of the optional fields and of the extensions map, checked    *)
(* under Spec.                                                              *)
(***************************************************************************)
\* the optional fields of a content that hold a byte string
OptionalByteFields == {"replaces", "in_reply_to"}

\* the position of each optional field in the array written
SlotOf(f) == CASE f = "replaces" -> 2 [] f = "expires" -> 4 [] f = "in_reply_to" -> 5

\* C14: each of replaces, expires and in_reply_to is written into exactly
\* one element of the array: null when the field is absent, the encoding of
\* the value itself, with nothing around it, when it is present.  A content
\* with an absent field and the same content with that field present, also
\* present and empty, are written as different octets, and the octets
\* written decode to a content whose optional fields are the ones written.
C14_OptionalFieldTakesOneSlot ==
    bytes.some =>
        /\ Written.ok
        /\ Len(Written.val.item.array) = 7
        /\ \A f \in OptionalByteFields \cup {"expires"} :
              LET e == Written.val.item.array[SlotOf(f)] IN
              /\ (e = Null) <=> ~content[f].some
              /\ content[f].some =>
                    e = IF f = "expires"
                        THEN Array(2, << Bool(content[f].val.relative),
                                         UInt(content[f].val.time) >>)
                        ELSE Bytes(content[f].val)
        /\ \A f \in OptionalByteFields :
              \A o \in OptionalBytes \ {content[f]} :
                  MimiContent_serialize([content EXCEPT ![f] = o]) # bytes.val
        /\ \A o \in Expirations \ {content.expires} :
              MimiContent_serialize([content EXCEPT !.expires = o]) # bytes.val
        /\ decoded.some =>
              /\ decoded.val.ok
              /\ \A f \in OptionalByteFields \cup {"expires"} :
                    decoded.val.val[f] = content[f]

\* a content whose replaces is present and empty was written, with the
\* empty byte string in the second element, and read back as present
C14_Witness ==
    /\ bytes.some
    /\ decoded.some
    /\ content.replaces = Some(<< >>)
    /\ content.in_reply_to = None
    /\ Written.val.item.array[2] = Bytes(<< >>)
    /\ Written.val.item.array[5] = Null
    /\ decoded.val = Ok(content)

\* one key of the map written comes before another as the claim has it: a
\* number before a text, numbers ascending, texts in lexicographic order
KeyBefore(a, b) ==
    IF Is(a, "uint") THEN Is(b, "text") \/ (Is(b, "uint") /\ a.uint < b.uint)
    ELSE Is(a, "text") /\ Is(b, "text") /\ BytesLess(a.text, b.text)

\* the pairs of the extensions map written
WrittenPairs == Written.val.item.array[6].map

\* C18, as stated: the extensions are written as one map of definite
\* length, with as many pairs as the content has entries, each key a bare
\* integer or text string, every Number key before every Text key, the
\* Number keys ascending and the Text keys in lexicographic order.
C18_ExtensionsNumbersFirst ==
    bytes.some =>
        /\ Written.ok
        /\ Is(Written.val.item.array[6], "map")
        /\ Written.val.item.array[6].len = Len(WrittenPairs)
        /\ Len(WrittenPairs) = Len(content.extensions)
        /\ \A i \in 1..Len(WrittenPairs) :
              Is(WrittenPairs[i][1], "uint") \/ Is(WrittenPairs[i][1], "text")
        /\ \A i, j \in 1..Len(WrittenPairs) :
              i < j => KeyBefore(WrittenPairs[i][1], WrittenPairs[j][1])

\* a content with the entries 1 and "a" was written with the key "a"
\* before the key 1
C18_Witness ==
    /\ bytes.some
    /\ Len(content.extensions) = 2
    /\ WrittenPairs[1][1] = Text(text_a)
    /\ WrittenPairs[2][1] = UInt(1)

(***************************************************************************)
(* Properties of the calls on a content, checked under Spec.               *)
(***************************************************************************)
\* the octet strings of the model that are UTF-8: "", "h", "hh", "é" and
\* the like, none with the octet 255 or with 195 at its end
IsText(b) ==
    \A i \in 1..Len(b) :
        /\ b[i] # 255
        /\ b[i] = 195 => (i < Len(b) /\ b[i + 1] = 169)
        /\ b[i] = 169 => (i > 1 /\ b[i - 1] = 195)

\* C21: string_rendering returns the content octets as text exactly when
\* the part is a SinglePart of content type "text/markdown" whose content
\* is UTF-8; NotUtf8 when the content of such a part is not UTF-8; and
\* UnsupportedContentType for every other part, a SinglePart of another
\* content type included whatever its octets.
C21_StringRendering ==
    rendered.some =>
        LET part == content.nested_part.part IN
        IF part.variant = "SinglePart"
        THEN IF part.content_type # text_markdown
             THEN rendered.val = Err("UnsupportedContentType")
             ELSE IF IsText(part.content)
                  THEN rendered.val = Ok(part.content)
                  ELSE rendered.val = Err("NotUtf8")
        ELSE rendered.val = Err("UnsupportedContentType")

\* a markdown part whose content is the octet 255 was rendered
C21_Witness ==
    /\ rendered = Some(Err("NotUtf8"))
    /\ content.nested_part.part = SinglePart(text_markdown, << 255 >>)

MessageIdReturned == id1' # id1 \/ id2' # id2

\* C23: message_id leaves the content it is called on as it was: every
\* field, replaces and in_reply_to among them, is after the call what it
\* was before, serialize gives the same octets as before, and so the ID is
\* in the encoded content only if it was there before the call.
C23_MessageIdLeavesContent ==
    [][MessageIdReturned =>
          /\ content' = content
          /\ content'.replaces = content.replaces
          /\ content'.in_reply_to = content.in_reply_to
          /\ MimiContent_serialize(content') = MimiContent_serialize(content)
          /\ bytes' = bytes]_vars

\* message_id was called twice on a content that names another message,
\* before the content was written, and the octets written are those of
\* the content as built
C23_Witness ==
    /\ id1.some
    /\ id2.some
    /\ bytes.some
    /\ content.in_reply_to = Some(<< 104 >>)
    /\ content.replaces = Some(<< >>)
    /\ bytes.val = MimiContent_serialize(content)

\* C27: message_id takes the sender and the room only as the octets of
\* the one followed by the other: for the same content, two pairs of sender
\* and room that run together into the same octets, as ("ab", "c") and
\* ("a", "bc"), give the same ID.
C27_SenderAndRoomRunTogether ==
    id1.some =>
        \A pair \in SenderRoomPairs :
            pair[1] \o pair[2] = sender \o room
                => message_id(content, pair[1], pair[2]) = id1.val

\* the ID of a content sent by "ab" to "c" is the one of "a" and "bc"
C27_Witness ==
    /\ id1.some
    /\ sender = << 97, 98 >>
    /\ room = << 99 >>
    /\ id1.val = message_id(content, << 97 >>, << 98, 99 >>)

C29_SimpleMarkdownMessage ==
    (built.some /\ built.val.fn = "simple_markdown_message") =>
        LET m == built.val.markdown
            part == content.nested_part.part
        IN  /\ content.salt = built.val.random_salt
            /\ content.replaces = None
            /\ content.topic_id = << >>
            /\ content.expires = None
            /\ content.in_reply_to = None
            /\ content.extensions = << >>
            /\ content.nested_part.disposition = Named("Render")
            /\ part.variant = "SinglePart"
            /\ part.content_type = text_markdown
            /\ rendered.some => rendered.val = Ok(m)
            /\ decoded.some =>
                  /\ decoded.val.ok
                  /\ string_rendering(decoded.val.val) = Ok(m)

\* a message of two octets was built, written, read back and rendered
C29_Witness ==
    /\ built.some
    /\ built.val.fn = "simple_markdown_message"
    /\ built.val.markdown = e_acute
    /\ built.val.random_salt # << >>
    /\ rendered = Some(Ok(e_acute))
    /\ decoded.some
    /\ string_rendering(decoded.val.val) = Ok(e_acute)

\* C30: a content built by simple_delivery_receipt(targets, salt) has the
\* disposition Unspecified and a SinglePart of
\* application/mimi-message-status, whose content
\* MessageStatusReport::deserialize reads as a report with one entry for
\* each target, in the order of the targets, with the target as mimi_id
\* and the status Delivered; this holds for the empty list of targets too.
C30_SimpleDeliveryReceipt ==
    (built.some /\ built.val.fn = "simple_delivery_receipt") =>
        LET targets == built.val.targets
            part == content.nested_part.part
            report == MessageStatusReport_deserialize(part.content)
        IN  /\ content.nested_part.disposition = Named("Unspecified")
            /\ part.variant = "SinglePart"
            /\ part.content_type = application_mimi_message_status
            /\ report.ok
            /\ Len(report.val.statuses) = Len(targets)
            /\ \A i \in 1..Len(targets) :
                  /\ report.val.statuses[i].mimi_id = targets[i]
                  /\ report.val.statuses[i].status = Named("Delivered")

\* a receipt for two different targets was built and written
C30_Witness ==
    /\ built.some
    /\ built.val.fn = "simple_delivery_receipt"
    /\ built.val.targets = << id32, << 104 >> >>
    /\ bytes.some
    /\ MessageStatusReport_deserialize(content.nested_part.part.content).ok

\* the number of elements a record is to announce: one for each plain
\* field, and one and the number of fields of the active variant for an
\* externally tagged field
Announced(struct, v) ==
    LET fields == FieldsOf(struct)
        tagged == {i \in 1..Len(fields) : fields[i].externally_tagged}
        plain == (1..Len(fields)) \ tagged
    IN  Cardinality(plain)
          + (IF tagged = {} THEN 0
             ELSE LET f == fields[CHOOSE i \in tagged : TRUE]
                  IN  1 + Len(VariantOf(NestedPartContent, v[f.name]).fields))

\* the item is an array that announces n elements and holds n elements
HoldsAnnounced(item, n) ==
    /\ Is(item, "array")
    /\ item.len = n
    /\ Len(item.array) = n

RECURSIVE PartHoldsAnnounced(_, _)
\* the array of a part, and the array of every part in it, holds the
\* number of elements it announces, which is the number for its variant
PartHoldsAnnounced(item, p) ==
    /\ HoldsAnnounced(item, Announced("NestedPart", p))
    /\ item.len \in {3, 5, 15}
    /\ p.part.variant = "MultiPart" =>
          /\ HoldsAnnounced(item.array[5], Len(p.part.parts))
          /\ \A i \in 1..Len(p.part.parts) :
                PartHoldsAnnounced(item.array[5].array[i], p.part.parts[i])

\* the octets are a list of status records, each an array that announces 2
\* elements and holds 2
StatusesHoldAnnounced(octets, n) ==
    LET list == Decode(octets, 1) IN
    /\ list.ok
    /\ list.val.next = Len(octets) + 1
    /\ HoldsAnnounced(list.val.item, n)
    /\ \A i \in 1..n :
          HoldsAnnounced(list.val.item.array[i], Len(FieldsOf("PerMessageStatus")))

\* C26: every record the derive writes (the content, its expiration, its
\* part and the parts in that, the status records of a receipt) is an array
\* whose header, the first octet written for it, announces one element for
\* each plain field and one and the number of fields of the active variant
\* for an externally tagged field, and that holds exactly as many elements
\* as it announces: the octets are one whole item of this shape.
C26_AnnouncedLengthIsWritten ==
    bytes.some =>
        /\ bytes.val[1] = 128 + Announced("MimiContent", content)
        /\ Written.ok
        /\ Written.val.next = Len(bytes.val) + 1
        /\ HoldsAnnounced(Written.val.item, 7)
        /\ content.expires.some =>
              HoldsAnnounced(Written.val.item.array[4], Announced("Expiration", content.expires.val))
        /\ PartHoldsAnnounced(Written.val.item.array[7], content.nested_part)
        /\ (built.some /\ built.val.fn = "simple_delivery_receipt") =>
              StatusesHoldAnnounced(content.nested_part.part.content,
                                    Len(built.val.targets))

\* a MultiPart of a NullPart and a SinglePart was written: an array of 5
\* elements, the last of them a list of an array of 3 and an array of 5
C26_Witness ==
    /\ bytes.some
    /\ content.nested_part.part.variant = "MultiPart"
    /\ Len(content.nested_part.part.parts) = 2
    /\ content.nested_part.part.parts[1].part.variant = "NullPart"
    /\ content.nested_part.part.parts[2].part.variant = "SinglePart"
    /\ Written.ok
    /\ Written.val.item.array[7].len = 5
    /\ Written.val.item.array[7].array[5].array[1].len = 3
    /\ Len(Written.val.item.array[7].array[5].array[2].array) = 5

(***************************************************************************)
(* Properties of the status report codec, checked under SpecReport.        *)
(***************************************************************************)
\* the report held, and the item its octets start with
Report == enumValue.val
ReportWritten == Decode(bytes.val, 1)

\* the octets are one array with one element per status, in the order of
\* the list, each the array of mimi_id, a byte string, and status, an
\* unsigned integer
ReportIsBareArray ==
    /\ enumWritten.val.ok
    /\ ReportWritten.ok
    /\ ReportWritten.val.next = Len(bytes.val) + 1
    /\ ReportWritten.val.item =
          Array(Len(Report.statuses),
                [i \in 1..Len(Report.statuses) |->
                    Array(2, << Bytes(Report.statuses[i].mimi_id),
                                EnumItem("MessageStatus", Report.statuses[i].status) >>)])

\* C24, as stated: a report is written as a bare array of 2-element
\* arrays, and reading the octets gives a report equal to the one written.
C24_ReportRoundTrip ==
    enumWritten.some =>
        /\ ReportIsBareArray
        /\ enumRead.some => enumRead.val = Ok(Report)

\* C24, amended: a report is written as a bare array of 2-element arrays,
\* and reading the octets gives a report with the same mimi_ids and the
\* same status numbers in the same order, which is equal to the one written
\* when no status is a Custom(n) with n the number of a named status.
C24_ReportRoundTripOfCanonical ==
    enumWritten.some =>
        /\ ReportIsBareArray
        /\ enumRead.some =>
              /\ enumRead.val.ok
              /\ MessageStatusReport_serialize(enumRead.val.val) = enumWritten.val
              /\ (\A i \in 1..Len(Report.statuses) :
                      NoNamedCustom("MessageStatus", Report.statuses[i].status))
                    => enumRead.val = Ok(Report)

\* a report of a Read and a Custom(200) status was written and read back
C24_Witness ==
    /\ enumWritten.some
    /\ enumRead.some
    /\ Report.statuses = << [mimi_id |-> id32, status |-> Named("Read")],
                            [mimi_id |-> << 104 >>, status |-> Custom(200)] >>
    /\ enumRead.val = Ok(Report)
    /\ SubSeq(bytes.val, 1, 4) = << 130, 130, 88, 32 >>

(***************************************************************************)
(* Properties of concurrent calls, checked under SpecThreads.              *)
(***************************************************************************)
\* what the call returns when it is the only call ever made
Alone(op, arg) ==
    IF op = "message_id" THEN message_id(arg.content, arg.sender, arg.room)
    ELSE Return(op, arg)

\* C25: the codec keeps nothing between calls and shares nothing between
\* callers: however the steps of the calls of the threads interleave, and
\* whatever calls a thread made before, a call returns what it returns
\* when it is made alone.
C25_CallsDoNotInterfere ==
    \A t \in Threads :
        calls[t].result.some =>
            calls[t].result.val = Alone(calls[t].op, calls[t].arg)

\* two calls of message_id on different contents were under way together,
\* and the one of thread 2, a second call of that thread, has returned
C25_Witness ==
    /\ calls[1].op = "message_id"
    /\ calls[1].pc = "extend_salt"
    /\ calls[2].op = "message_id"
    /\ calls[2].done = 2
    /\ calls[2].result.some
    /\ calls[1].arg.content # calls[2].arg.content
    /\ calls[2].result.val =
          message_id(calls[2].arg.content, calls[2].arg.sender, calls[2].arg.room)

=============================================================================
